---- MODULE Spec2Model ----
(***************************************************************************)
(* Model of the sensing node's control core:                               *)
(*   - the Device orchestrator (src/src/device/mod.rs) with its sensors,   *)
(*     radio and flash storage capabilities,                                *)
(*   - the channel-based program (src/src/main.rs),                         *)
(*   - the Sensor trait implementations (src/src/sensor/*.rs).              *)
(***************************************************************************)
EXTENDS Integers, Sequences, FiniteSets, TLC

VARIABLES
    \* ---- Device orchestrator (device/mod.rs) ----
    state,          \* Device.state: "Boot" | "Auth" | "Duty" | "Send" | "Idle"
    idle_secs,      \* the payload of State::Idle(secs), 0 in any other state
    pc,             \* position in Device::run's loop body: "eval" | "tick"
    exec,           \* "running" | "panicked" | "off"
    auth_attempt,   \* Device.auth_attempt (u8)
    data,           \* Device.data: Vec<u8, 33>, as the sequence of appended records
    storage,        \* the key-value store: key tag -> stored value
    soil_pwr,       \* SoilSensor.pwr output pin level: "low" | "high"
    reset_flag,     \* config::Config::RESET
    join_count,     \* number of sessions the network has handed out (names them)
    fails,          \* history: consecutive failed full joins of a run that began at counter 0
    persisted,      \* history: the session the last complete persist stored, while storage is untouched since
    probed,         \* history: the records the probes of the last Duty returned
    last,           \* history: what the last step of the orchestrator did
    \* ---- channel-based program (main.rs) ----
    m_pc,           \* position of main
    m_i,            \* iterations done of `for _ in 0..3`
    m_msg,          \* the RadioCommand main is about to send
    ctrl,           \* AIR_CTRL_CHNL, SOIL_CTRL_CHNL, BATTERY_CTRL_CHNL
    task_pc,        \* position of air_sensor_task, soil_sensor_task, battery_check_task
    data_chnl,      \* DATA_CHNL
    radio_ctrl,     \* RADIO_CTRL_CHNL
    radio_pc,       \* position of radio_module_task
    radio_cmd,      \* the command radio_module_task is handling
    joined,         \* whether a join of the radio has succeeded
    m_panic,        \* the program has panicked
    cycle,          \* history: number of duty cycles main has started
    got,            \* history: sources of the results main received in this cycle
    mfailed,        \* history: sensors whose measurement failed in this cycle
    held,           \* the mutex guards each task holds
    hist,           \* history: first command each task handled, results not yet sent
    \* ---- Sensor trait implementations (sensor/*.rs) ----
    air_powered,    \* AirSensor.powered
    air_chip,       \* the air sensor chip behind the bus: "idle" | "sleep"
    soil_pin,       \* SoilSensor.pwr output pin level: "low" | "high"
    prev_call,      \* history: the Sensor call before the last one
    last_call,      \* history: the last Sensor call, its result and side effects
    \* ---- Board orchestrator (board/mod.rs) ----
    b_exec,         \* "running" | "panicked" | "absent" (the image runs the Device instead)
    b_state,        \* Board.state: "Init" | "Auth" | "Duty" | "Send" | "Wait"
    b_wait,         \* the payload of State::Wait(secs), 0 in any other state
    b_pc,           \* position in Board::run's loop body: "eval" | "tick"
    sensors_data,   \* Board.sensors_data: Vec<u8, 37>, as the sequence of appended records
    join_attempt,   \* Board.join_attempt (u8)
    b_stored,       \* the session keys the database holds
    b_last,         \* history: what the last step of the Board did
    \* ---- measurement and record encoding (sensor/*.rs, air_sensor/mod.rs) ----
    meas_in,        \* the Data, the chip's answer or the converter readings at hand
    meas_out,       \* the last measurement: its bus operations, result and record
    \* ---- frame-counter store (database/mod.rs), on the flash region of `storage` ----
    db_exec,        \* "running" | "panicked"
    db_last         \* history: the last operation on the flash region and its result

dvars == <<state, idle_secs, pc, exec, auth_attempt, data, storage, soil_pwr,
           reset_flag, join_count, fails, persisted, probed, last>>

mvars == <<m_pc, m_i, m_msg, ctrl, task_pc, data_chnl, radio_ctrl, radio_pc,
           radio_cmd, joined, m_panic, cycle, got, mfailed, held, hist>>

svars == <<air_powered, air_chip, soil_pin, prev_call, last_call>>

bvars == <<b_exec, b_state, b_wait, b_pc, sensors_data, join_attempt, b_stored, b_last>>

evars == <<meas_in, meas_out>>

kvars == <<db_exec, db_last>>

\* The variables each part of the program leaves alone.
nonDevice == <<mvars, svars, bvars, evars, kvars>>
nonMain == <<dvars, svars, bvars, evars, kvars>>
nonSensor == <<dvars, mvars, bvars, evars, kvars>>
nonBoard == <<dvars, mvars, svars, evars, kvars>>
nonMeasure == <<dvars, mvars, svars, bvars, kvars>>
nonStore == <<state, idle_secs, pc, exec, auth_attempt, data, soil_pwr, reset_flag,
              join_count, fails, persisted, probed, last, mvars, svars, bvars, evars>>

vars == <<dvars, mvars, svars, bvars, evars, kvars>>

(***************************************************************************)
(* Bounds of the model.                                                    *)
(***************************************************************************)
MaxJoins == 2       \* sessions the network hands out in one behaviour
MaxReading == 2     \* distinct measurement values a probe may return
MaxCycles == 2      \* duty cycles main starts in one behaviour

(***************************************************************************)
(* Program constants.                                                      *)
(***************************************************************************)
DataCapacity == 33      \* data: Vec<u8, 33>
SystemRecordSize == 18  \* S0: Sensor<18>
SoilRecordSize == 4     \* S1: Sensor<4>
AirRecordSize == 11     \* S2: Sensor<11>
U8Modulus == 256        \* auth_attempt: u8
AuthAttemptLimit == 9   \* if self.auth_attempt > 9
BootFailIdleSecs == 3600    \* Boot  Err(_) => State::Idle(60 * 60)
AuthFailIdleSecs == 3600    \* Auth  Err(_) => State::Idle(60 * 60)
DutyFailIdleSecs == 3600    \* Duty  Err(_) => State::Idle(60 * 60)
SendFailIdleSecs == 3600    \* Send  Err(_) => State::Idle(60 * 60)

(***************************************************************************)
(* Storage (storage/mod.rs, storage/flash_storage.rs).                     *)
(***************************************************************************)
Keys == {"AppSKey", "NewSKey", "DevAddr"}

\* impl From<&Key> for [u8; 1]
KeyTag(k) ==
    CASE k = "AppSKey" -> 0
      [] k = "NewSKey" -> 1
      [] k = "DevAddr" -> 2

Tags == {KeyTag(k) : k \in Keys}

\* A stored value is one part of the session a join returned, named by the
\* part and by the join that produced it.  Absent: no value under the key.
Absent == [part |-> "none", join |-> 0]
Parts == {"nwk", "app", "dev"}
Values == [part : Parts, join : 1..(MaxJoins + 1)] \cup {Absent}

EmptyStorage == [t \in Tags |-> Absent]

\* FlashStorage::get: the value read under the key's tag; a key that was never
\* written and a read that fails both give None (.ok()).
StorageGet(st, k, readOk) ==
    IF readOk /\ st[KeyTag(k)] # Absent THEN st[KeyTag(k)] ELSE Absent

\* FlashStorage::put, write and commit both succeeding.
StoragePut(st, k, v) == [st EXCEPT ![KeyTag(k)] = v]

(***************************************************************************)
(* Radio (radio/lora_radio.rs).                                            *)
(***************************************************************************)
NoSession == <<>>

\* LoraRadio::join on JoinSuccess: (session.nwkskey, session.appskey, session.devaddr)
SessionOf(j) ==
    <<[part |-> "nwk", join |-> j], [part |-> "app", join |-> j], [part |-> "dev", join |-> j]>>

JoinResponses == {"JoinSuccess", "NoJoinAccept", "Error"}

\* LoraRadio::join: Ok(keys) on JoinSuccess, Err otherwise.
RadioJoinOk(resp) == resp = "JoinSuccess"

SendResponses == {"DownlinkReceived", "SessionExpired", "NoAck", "RxComplete", "Error"}

\* LoraRadio::uplink: the Result handed to Device::uplink.
RadioUplink(resp) ==
    CASE resp = "DownlinkReceived" -> "Ok"
      [] resp = "SessionExpired" -> "SessionExpired"
      [] resp \in {"NoAck", "RxComplete"} -> "NoAck"
      [] OTHER -> "LoRaWAN"

(***************************************************************************)
(* Soil sensor power pin (sensor/soil_sensor.rs).                          *)
(***************************************************************************)
\* SoilSensor::on: if self.pwr.is_set_low() { self.pwr.set_high() }
SoilOnPin(p) == IF p = "low" THEN "high" ELSE p

\* SoilSensor::off: if self.pwr.is_set_high() { self.pwr.set_low() }
SoilOffPin(p) == IF p = "high" THEN "low" ELSE p

(***************************************************************************)
(* Device (device/mod.rs).                                                 *)
(***************************************************************************)
States == {"Boot", "Auth", "Duty", "Send", "Idle"}

\* A load that takes the device address from its zeroed buffer when the
\* third get returns nothing.
get_session_keys_TwoKeys(gets) ==
    IF gets["NewSKey"] # Absent /\ gets["AppSKey"] # Absent
    THEN <<gets["NewSKey"], gets["AppSKey"], gets["DevAddr"]>>
    ELSE NoSession

\* A load that reports a session as soon as one of the gets returns a value.
get_session_keys_AnyKey(gets) ==
    IF gets["NewSKey"] # Absent \/ gets["AppSKey"] # Absent \/ gets["DevAddr"] # Absent
    THEN <<gets["NewSKey"], gets["AppSKey"], gets["DevAddr"]>>
    ELSE NoSession

\* A load that never reports a stored session.
get_session_keys_Never(gets) ==
    IF FALSE
    THEN <<gets["NewSKey"], gets["AppSKey"], gets["DevAddr"]>>
    ELSE NoSession

\* Device::get_session_keys over the three Option results of storage.get.
get_session_keys(gets) ==
    LET apps_key == gets["AppSKey"]
        news_key == gets["NewSKey"]
        dev_addr == gets["DevAddr"]
    IN IF news_key # Absent /\ apps_key # Absent /\ dev_addr # Absent
       THEN <<news_key, apps_key, dev_addr>>
       ELSE NoSession

\* A persist that writes the network key under the application key's tag
\* and the application key under the network key's.
PersistOrder_Swapped == <<"AppSKey", "NewSKey", "DevAddr">>

\* The puts of Device::persist_session_keys, in program order.
PersistOrder == <<"NewSKey", "AppSKey", "DevAddr">>

\* Device::persist_session_keys when the first np puts succeed (np = 3: all).
\* The put after them fails or never runs, and writes nothing.
RECURSIVE PersistPuts(_, _, _)
PersistPuts(st, keys, np) ==
    IF np = 0 THEN st
    ELSE StoragePut(PersistPuts(st, keys, np - 1), PersistOrder[np], keys[np])

\* A persist that reports success once the two keys are written.
persist_session_keys_KeysOnly(st, keys, np) ==
    [storage |-> PersistPuts(st, keys, np),
     res |-> IF np >= 2 THEN "Ok" ELSE "Storage"]

persist_session_keys(st, keys, np) ==
    [storage |-> PersistPuts(st, keys, np),
     res |-> IF np = 3 THEN "Ok" ELSE "Storage"]

\* A boot that gives up at the first verify that fails.
boot_AbortOnVerify(st, pin, mountOk, resetFlag, formatOk, wiped, vok) ==
    LET doFormat == ~mountOk \/ resetFlag
        st1 == IF doFormat /\ (formatOk \/ wiped) THEN EmptyStorage ELSE st
        base == [storage |-> st1, format |-> doFormat,
                 fault |-> doFormat /\ ~formatOk,
                 vfailed |-> {s \in {"system", "soil", "air"} : ~vok[s]}]
    IN IF ~vok["system"]
       THEN base @@ [soil_pwr |-> pin, verified |-> <<"system">>, res |-> "Boot"]
       ELSE IF ~vok["soil"]
       THEN base @@ [soil_pwr |-> SoilOnPin(pin), verified |-> <<"system", "soil">>,
                     res |-> "Boot"]
       ELSE base @@ [soil_pwr |-> SoilOffPin(SoilOnPin(pin)),
                     verified |-> <<"system", "soil", "air">>,
                     res |-> IF vok["air"] THEN "Ok" ELSE "Boot"]

\* A boot that formats on the reset flag alone.
boot_FormatOnResetOnly(st, pin, mountOk, resetFlag, formatOk, wiped, vok) ==
    LET doFormat == resetFlag
        st1 == IF doFormat /\ (formatOk \/ wiped) THEN EmptyStorage ELSE st
    IN [storage |-> st1, format |-> doFormat,
        fault |-> doFormat /\ ~formatOk,
        vfailed |-> {s \in {"system", "soil", "air"} : ~vok[s]},
        soil_pwr |-> SoilOffPin(SoilOnPin(pin)),
        verified |-> <<"system", "soil", "air">>,
        res |-> "Ok"]

\* Device::boot.  mountOk, formatOk: the results of storage.mount and
\* storage.format; wiped: a format that fails has already erased the store;
\* vok[s]: whether the verify of sensor s succeeds.  The format's and the
\* verifies' errors are logged only, the result is always Ok(()).
boot(st, pin, mountOk, resetFlag, formatOk, wiped, vok) ==
    LET doFormat == ~mountOk \/ resetFlag
        st1 == IF doFormat /\ (formatOk \/ wiped) THEN EmptyStorage ELSE st
        pin1 == SoilOnPin(pin)          \* let _ = self.soil.on().await
        pin2 == SoilOffPin(pin1)        \* let _ = self.soil.off().await
    IN [storage |-> st1, format |-> doFormat,
        fault |-> doFormat /\ ~formatOk,
        vfailed |-> {s \in {"system", "soil", "air"} : ~vok[s]},
        soil_pwr |-> pin2,
        verified |-> <<"system", "soil", "air">>,
        res |-> "Ok"]

\* A failure branch without the limit.
JoinFailure_NoLimit(attempt) ==
    [auth_attempt |-> (attempt + 1) % U8Modulus, res |-> "AuthFailed"]

\* The failure branch of the full join: if self.auth_attempt > 9 {...} else {...}
JoinFailure(attempt) ==
    IF attempt > AuthAttemptLimit
    THEN [auth_attempt |-> 0, res |-> "AuthJoinAttemptsExhausted"]
    ELSE [auth_attempt |-> (attempt + 1) % U8Modulus, res |-> "AuthFailed"]

\* The Option results the three storage.get calls of one load can give.
GetOutcomes(st) ==
    {[k \in Keys |-> StorageGet(st, k, readOk[k])] : readOk \in [Keys -> BOOLEAN]}

\* Whether the radio's join can succeed, can fail, as LoraRadio::join reports it.
JoinOutcomes == {RadioJoinOk(resp) : resp \in JoinResponses}

\* Device::auth.  gets: the results of the three storage.get calls; joinOk:
\* the radio's answer to the join; np: how many puts of the persist succeed;
\* cut: power is lost inside the persist, after np puts; newJoin names the
\* session a successful full join returns.
auth(st, attempt, gets, joinOk, np, cut, newJoin) ==
    LET keys == get_session_keys(gets)
        base == [gets |-> gets, keys |-> keys, storage |-> st,
                 auth_attempt |-> attempt, joined |-> NoSession, puts |-> 0]
    IN IF keys # NoSession
       THEN \* JoinMode::ABP with the stored session
            base @@ [mode |-> "ABP", res |-> IF joinOk THEN "Ok" ELSE "Auth"]
       ELSE \* JoinMode::OTAA
            IF joinOk
            THEN LET p == persist_session_keys(st, SessionOf(newJoin), np)
                 IN [base EXCEPT !.storage = p.storage,
                                 !.joined = SessionOf(newJoin),
                                 !.puts = np] @@
                    [mode |-> "OTAA",
                     res |-> IF cut THEN "PowerLost"
                             ELSE IF p.res = "Ok" THEN "Ok"
                             ELSE "Panic"]      \* Err(_) => todo!()
            ELSE LET f == JoinFailure(attempt)
                 IN [base EXCEPT !.auth_attempt = f.auth_attempt] @@
                    [mode |-> "OTAA", res |-> f.res]

Sensors == {"system", "soil", "air"}

RecordSize(s) ==
    CASE s = "system" -> SystemRecordSize
      [] s = "soil" -> SoilRecordSize
      [] s = "air" -> AirRecordSize

RECURSIVE DataLen(_)
DataLen(d) == IF d = <<>> THEN 0 ELSE RecordSize(Head(d).sensor) + DataLen(Tail(d))

\* heapless Vec::extend_from_slice: Err when the slice does not fit.
ExtendFits(d, rec) == DataLen(d) + RecordSize(rec.sensor) <= DataCapacity

\* A collect_data that does not clear the buffer.
ClearData_Keep(d) == d

\* self.data.clear()
ClearData(d) == <<>>

\* Device::collect_data.  ok[s]: whether the probe of sensor s succeeds;
\* val: the measurement the probes of this cycle encode.
collect_data(d, pin, ok, val) ==
    LET d0 == ClearData(d)
        rec(s) == [sensor |-> s, reading |-> val]
        d1 == Append(d0, rec("system"))
        pin1 == SoilOnPin(pin)
        d2 == Append(d1, rec("soil"))
        pin2 == SoilOffPin(pin1)
        d3 == Append(d2, rec("air"))
    IN IF ~ok["system"] THEN [data |-> d0, soil_pwr |-> pin, res |-> "Duty"]
       ELSE IF ~ExtendFits(d0, rec("system")) THEN [data |-> d0, soil_pwr |-> pin, res |-> "Panic"]
       ELSE IF ~ok["soil"] THEN [data |-> d1, soil_pwr |-> pin1, res |-> "Duty"]
       ELSE IF ~ExtendFits(d1, rec("soil")) THEN [data |-> d1, soil_pwr |-> pin1, res |-> "Panic"]
       ELSE IF ~ok["air"] THEN [data |-> d2, soil_pwr |-> pin2, res |-> "Duty"]
       ELSE IF ~ExtendFits(d2, rec("air")) THEN [data |-> d2, soil_pwr |-> pin2, res |-> "Panic"]
       ELSE [data |-> d3, soil_pwr |-> pin2, res |-> "Ok"]

\* The order in which collect_data probes the sensors.
ProbeOrder == <<"system", "soil", "air">>

\* recs: the records probed; stale: whether the buffer held records of an
\* earlier cycle with another reading when the cycle began.
NoProbes == [recs |-> <<>>, stale |-> FALSE]

\* The records the probes of one collect_data return: those of the sensors
\* up to the first whose probe fails.
Probed(ok, val) ==
    LET n == IF ~ok["system"] THEN 0
             ELSE IF ~ok["soil"] THEN 1
             ELSE IF ~ok["air"] THEN 2 ELSE 3
    IN [i \in 1..n |-> [sensor |-> ProbeOrder[i], reading |-> val]]

\* A payload that lacks the last record.
Payload_Truncated(d) == IF d = <<>> THEN d ELSE SubSeq(d, 1, Len(d) - 1)

\* let data: &[u8] = self.data.as_ref(): the payload handed to the radio.
Payload(d) == d

\* Device::uplink's classification of the radio's result.
uplink(resp) ==
    LET r == RadioUplink(resp)
    IN CASE r = "Ok" -> "Ok"
         [] r = "SessionExpired" -> "SessionExpired"
         [] r = "NoAck" -> "NoAck"
         [] OTHER -> "Send"

\* The match arms of Device::run: the next state for a state and its result.
\* A run loop that goes from Boot to Duty without an Auth.
RunBoot_SkipAuth(res) == IF res = "Ok" THEN [state |-> "Duty", secs |-> 0]
                         ELSE [state |-> "Idle", secs |-> BootFailIdleSecs]

RunBoot(res) == IF res = "Ok" THEN [state |-> "Auth", secs |-> 0]
                ELSE [state |-> "Idle", secs |-> BootFailIdleSecs]

\* A run loop that retries Auth in place after every failed join.
RunAuth_RetryEveryFailure(res) ==
    CASE res = "Ok" -> [state |-> "Duty", secs |-> 0]
      [] res \in {"AuthFailed", "Auth"} -> [state |-> "Auth", secs |-> 0]
      [] OTHER -> [state |-> "Idle", secs |-> AuthFailIdleSecs]

RunAuth(res) ==
    CASE res = "Ok" -> [state |-> "Duty", secs |-> 0]
      [] res = "AuthFailed" -> [state |-> "Auth", secs |-> 0]
      [] OTHER -> [state |-> "Idle", secs |-> AuthFailIdleSecs]

\* A run loop that rests after every Duty.
RunDuty_ThenIdle(res) == [state |-> "Idle", secs |-> DutyFailIdleSecs]

RunDuty(res) == IF res = "Ok" THEN [state |-> "Send", secs |-> 0]
                ELSE [state |-> "Idle", secs |-> DutyFailIdleSecs]

\* A run loop that treats a missing acknowledgement as a hard error.
RunSend_NoAckIdle(res) ==
    CASE res = "Ok" -> [state |-> "Duty", secs |-> 0]
      [] res = "SessionExpired" -> [state |-> "Auth", secs |-> 0]
      [] OTHER -> [state |-> "Idle", secs |-> SendFailIdleSecs]

RunSend(res) ==
    CASE res \in {"Ok", "NoAck"} -> [state |-> "Duty", secs |-> 0]
      [] res = "SessionExpired" -> [state |-> "Auth", secs |-> 0]
      [] OTHER -> [state |-> "Idle", secs |-> SendFailIdleSecs]

\* An Idle arm that goes on to Duty without waiting for the timer.
RunIdle_SkipSleep(secs) == [state |-> "Duty", secs |-> 0, slept |-> 0]

\* State::Idle(secs) => { Timer::after_secs(secs).await; State::Auth }
RunIdle(secs) == [state |-> "Auth", secs |-> 0, slept |-> secs]

(***************************************************************************)
(* History record of the orchestrator's last step.  expired: the step is   *)
(* the first after a Send that reported session-expired; authed: the last  *)
(* Auth succeeded and neither Boot nor Idle has run since; clean: every    *)
(* storage, sensor and radio operation since the program first started     *)
(* has succeeded.                                                          *)
(***************************************************************************)
NoLast ==
    [op |-> "none", res |-> "none", mode |-> "none",
     gets |-> [k \in Keys |-> Absent], keys |-> NoSession,
     joined |-> NoSession, puts |-> 0, format |-> FALSE, sent |-> <<>>,
     before |-> <<>>, stored |-> NoSession, run0 |-> FALSE, prior |-> 0,
     resp |-> "none", fault |-> FALSE, verified |-> <<>>, vfailed |-> {},
     slept |-> 0, failed |-> {}, mounted |-> TRUE, flash |-> EmptyStorage,
     expired |-> FALSE, authed |-> FALSE, clean |-> TRUE]

(***************************************************************************)
(* Actions of the Device orchestrator.                                     *)
(***************************************************************************)
DeviceInit ==
    /\ state = "Boot"           \* State::default()
    /\ idle_secs = 0
    /\ pc = "eval"
    /\ exec = "running"
    /\ auth_attempt = 0
    /\ data = <<>>
    /\ storage = EmptyStorage
    /\ soil_pwr = "low"         \* gpio::Output::new(r.pwr, Level::Low)
    /\ reset_flag \in BOOLEAN
    /\ join_count = 0
    /\ fails = 0
    /\ persisted = NoSession
    /\ probed = NoProbes
    /\ last = NoLast

\* A loop that evaluates the state again without awaiting the ticker.
Evaluating_NoTicker(s) == exec = "running" /\ state = s

\* The loop body evaluates self.state; ticker.next().await follows it.
Evaluating(s) == exec = "running" /\ pc = "eval" /\ state = s

\* State::Boot => self.boot()
\* Device::boot: mount, format on mount failure or RESET, the three verifies
\* with the soil sensor powered around its own; always Ok(()).
Boot ==
    /\ Evaluating("Boot")
    /\ \E mountOk \in BOOLEAN, formatOk \in BOOLEAN, wiped \in BOOLEAN,
          vok \in [Sensors -> BOOLEAN] :
        LET b == boot(storage, soil_pwr, mountOk, reset_flag, formatOk, wiped, vok)
            nxt == RunBoot(b.res)
        IN /\ (~b.format \/ formatOk) => ~wiped
           /\ storage' = b.storage
           /\ soil_pwr' = b.soil_pwr
           /\ state' = nxt.state
           /\ idle_secs' = nxt.secs
           /\ last' = [NoLast EXCEPT !.op = "boot", !.res = b.res, !.format = b.format,
                                     !.fault = b.fault, !.verified = b.verified,
                                     !.vfailed = b.vfailed, !.mounted = mountOk,
                                     !.flash = storage,
                                     !.clean = (/\ last.clean /\ mountOk /\ ~b.fault
                                                /\ b.vfailed = {})]
    /\ persisted' = IF storage' = storage THEN persisted ELSE NoSession
    /\ pc' = "tick"
    /\ fails' = 0
    /\ UNCHANGED <<exec, auth_attempt, data, reset_flag, join_count, probed>>
    /\ UNCHANGED nonDevice

\* The ways the persist inside auth() can go: it runs only after a successful
\* full join; np puts succeed, and then either the next put fails (or all
\* three are done), or power is lost before the next put.
PersistOutcomes(gets, joinOk) ==
    IF get_session_keys(gets) = NoSession /\ joinOk
    THEN {[np |-> n, cut |-> c] : n \in 0..3, c \in BOOLEAN} \ {[np |-> 3, cut |-> TRUE]}
    ELSE {[np |-> 0, cut |-> FALSE]}

\* State::Auth => self.auth()
Auth ==
    /\ Evaluating("Auth")
    /\ \E gets \in GetOutcomes(storage), joinOk \in JoinOutcomes :
       \E pos \in PersistOutcomes(gets, joinOk) :
        LET a == auth(storage, auth_attempt, gets, joinOk, pos.np, pos.cut, join_count + 1)
            fullJoinOk == a.mode = "OTAA" /\ joinOk
            nxt == RunAuth(a.res)
        IN /\ fullJoinOk => join_count < MaxJoins
           /\ storage' = a.storage
           /\ auth_attempt' = a.auth_attempt
           /\ join_count' = IF fullJoinOk THEN join_count + 1 ELSE join_count
           /\ fails' = IF a.mode = "OTAA" /\ ~joinOk
                       THEN (IF fails > 0 \/ auth_attempt = 0 THEN fails + 1 ELSE 0)
                       ELSE 0
           /\ persisted' = IF fullJoinOk /\ a.puts = 3 THEN a.joined
                           ELSE IF a.storage = storage THEN persisted
                           ELSE NoSession
           /\ last' = [NoLast EXCEPT !.op = "auth", !.res = a.res, !.mode = a.mode,
                                     !.gets = a.gets, !.keys = a.keys,
                                     !.joined = a.joined, !.puts = a.puts,
                                     !.stored = persisted,
                                     !.run0 = (fails > 0 \/ auth_attempt = 0),
                                     !.prior = fails, !.expired = last.expired,
                                     !.authed = (a.res = "Ok"),
                                     !.clean = (/\ last.clean /\ a.res = "Ok"
                                                /\ \A k \in Keys :
                                                      gets[k] = storage[KeyTag(k)])]
           /\ IF a.res = "Panic"
              THEN exec' = "panicked" /\ UNCHANGED <<state, idle_secs, pc>>
              ELSE IF a.res = "PowerLost"
              THEN exec' = "off" /\ UNCHANGED <<state, idle_secs, pc>>
              ELSE /\ state' = nxt.state
                   /\ idle_secs' = nxt.secs
                   /\ pc' = "tick"
                   /\ UNCHANGED exec
    /\ UNCHANGED <<data, soil_pwr, reset_flag, probed>>
    /\ UNCHANGED nonDevice

\* State::Duty => self.collect_data()
Duty ==
    /\ Evaluating("Duty")
    /\ \E ok \in [Sensors -> BOOLEAN], val \in 1..MaxReading :
        LET c == collect_data(data, soil_pwr, ok, val)
            nxt == RunDuty(c.res)
        IN /\ data' = c.data
           /\ soil_pwr' = c.soil_pwr
           /\ last' = [NoLast EXCEPT !.op = "duty", !.res = c.res, !.before = data,
                                     !.failed = {x \in Sensors : ~ok[x]},
                                     !.authed = last.authed,
                                     !.clean = (/\ last.clean /\ c.res = "Ok"
                                                /\ \A x \in Sensors : ok[x])]
           /\ probed' = [recs |-> Probed(ok, val),
                          stale |-> \E i \in 1..Len(data) : data[i].reading # val]
           /\ IF c.res = "Panic"
              THEN exec' = "panicked" /\ UNCHANGED <<state, idle_secs, pc>>
              ELSE /\ state' = nxt.state
                   /\ idle_secs' = nxt.secs
                   /\ pc' = "tick"
                   /\ UNCHANGED exec
    /\ fails' = 0
    /\ UNCHANGED <<auth_attempt, storage, reset_flag, join_count, persisted>>
    /\ UNCHANGED nonDevice

\* State::Send => self.uplink()
Send ==
    /\ Evaluating("Send")
    /\ \E resp \in SendResponses :
        LET res == uplink(resp)
            nxt == RunSend(res)
        IN /\ state' = nxt.state
           /\ idle_secs' = nxt.secs
           /\ last' = [NoLast EXCEPT !.op = "send", !.res = res, !.sent = Payload(data),
                                     !.resp = resp, !.authed = last.authed,
                                     !.clean = (last.clean /\ RadioUplink(resp) = "Ok")]
    /\ pc' = "tick"
    /\ fails' = 0
    /\ UNCHANGED <<exec, auth_attempt, data, storage, soil_pwr, reset_flag, join_count,
                   persisted, probed>>
    /\ UNCHANGED nonDevice

\* State::Idle(secs) => { Timer::after_secs(secs).await; State::Auth }
Idle ==
    /\ Evaluating("Idle")
    /\ LET nxt == RunIdle(idle_secs)
       IN /\ state' = nxt.state
          /\ idle_secs' = nxt.secs
          /\ last' = [NoLast EXCEPT !.op = "idle", !.res = "Ok", !.slept = nxt.slept,
                                    !.clean = last.clean]
    /\ pc' = "tick"
    /\ fails' = 0
    /\ UNCHANGED <<exec, auth_attempt, data, storage, soil_pwr, reset_flag, join_count,
                   persisted, probed>>
    /\ UNCHANGED nonDevice

\* ticker.next().await at the end of the loop body
Tick ==
    /\ exec = "running"
    /\ pc = "tick"
    /\ pc' = "eval"
    /\ last' = [NoLast EXCEPT !.op = "tick",
                              !.expired = (last.op = "send" /\ last.res = "SessionExpired"),
                              !.authed = last.authed, !.clean = last.clean]
    /\ UNCHANGED <<state, idle_secs, exec, auth_attempt, data, storage, soil_pwr,
                   reset_flag, join_count, fails, persisted, probed>>
    /\ UNCHANGED nonDevice

\* The processor restarts after a panic or a power loss: Device::new and
\* SoilSensor::new run again, the flash keeps its content.
Restart ==
    /\ exec \in {"panicked", "off"}
    /\ exec' = "running"
    /\ state' = "Boot"
    /\ idle_secs' = 0
    /\ pc' = "eval"
    /\ auth_attempt' = 0
    /\ data' = <<>>
    /\ soil_pwr' = "low"
    /\ fails' = 0
    /\ probed' = NoProbes
    /\ last' = [NoLast EXCEPT !.op = "restart", !.clean = FALSE]
    /\ UNCHANGED <<storage, reset_flag, join_count, persisted>>
    /\ UNCHANGED nonDevice

DeviceNext == Boot \/ Auth \/ Duty \/ Send \/ Idle \/ Tick \/ Restart

(***************************************************************************)
(* The channel-based program (main.rs).                                    *)
(***************************************************************************)
AirCtrlCapacity == 4        \* AIR_CTRL_CHNL: Channel<_, AirSensorCommand, 4>
SoilCtrlCapacity == 4       \* SOIL_CTRL_CHNL: Channel<_, SoilSensorCommand, 4>
BatteryCtrlCapacity == 4    \* BATTERY_CTRL_CHNL: Channel<_, BatteryCommand, 4>
DataCapacityChnl == 10      \* DATA_CHNL: Channel<_, SensorData, 10>
RadioCtrlCapacity == 10     \* RADIO_CTRL_CHNL: Channel<_, RadioCommand, 10>
ResultsPerCycle == 3        \* for _ in 0..3

Producers == {"air", "soil", "battery"}
SensorTasks == {"air", "soil"}

\* Command channels that hold one command each.
CtrlCapacity_One(t) ==
    CASE t = "air" -> 1
      [] t = "soil" -> 1
      [] t = "battery" -> 1

CtrlCapacity(t) ==
    CASE t = "air" -> AirCtrlCapacity
      [] t = "soil" -> SoilCtrlCapacity
      [] t = "battery" -> BatteryCtrlCapacity

\* The SensorData variant each producer task sends.
DataTag(t) ==
    CASE t = "air" -> "Air"
      [] t = "soil" -> "Soil"
      [] t = "battery" -> "Status"

\* A match whose Soil arm builds the payload of the Air arm.
BuildUplink_SoilAsAir(tag) ==
    IF tag \in {"Air", "Soil"}
    THEN [cmd |-> "UplinkAirData", len |-> 11, from |-> tag,
          layout |-> << <<1, 103>>, <<1, 104>>, <<1, 101>> >>]
    ELSE [cmd |-> "UplinkStatusData", len |-> 11, from |-> tag,
          layout |-> << <<3, 103>>, <<3, 2>>, <<3, 104>> >>]

\* The arms of main's match on DATA_CHNL.receive(): the RadioCommand variant,
\* the (channel, type) pairs of the payload and its length in bytes.
BuildUplink(tag) ==
    CASE tag = "Air" ->
            [cmd |-> "UplinkAirData", len |-> 11, from |-> tag,
             layout |-> << <<1, 103>>, <<1, 104>>, <<1, 101>> >>]
      [] tag = "Soil" ->
            [cmd |-> "UplinkSoilData", len |-> 8, from |-> tag,
             layout |-> << <<2, 103>>, <<2, 101>> >>]
      [] tag = "Status" ->
            [cmd |-> "UplinkStatusData", len |-> 11, from |-> tag,
             layout |-> << <<3, 103>>, <<3, 2>>, <<3, 104>> >>]

\* The tasks of the executor: main and the four it spawns.
Tasks == Producers \cup {"main", "radio"}

SensorGuards == {"AIR_SENSOR_MUTEX", "SOIL_SENSOR_MUTEX"}
RadioGuard == "RADIO_MUTEX"

\* An air sensor task that also takes the radio's mutex in its arms.
TaskGuards_AirLocksRadio(t) ==
    CASE t = "air" -> {"AIR_SENSOR_MUTEX", "RADIO_MUTEX"}
      [] t = "soil" -> {"SOIL_SENSOR_MUTEX"}
      [] t = "radio" -> {"RADIO_MUTEX"}
      [] OTHER -> {}

\* The mutexes a task locks at the start of a match arm: air_sensor_mutex,
\* soil_sensor_mutex, radio_mutex; main and battery_check_task lock none.
TaskGuards(t) ==
    CASE t = "air" -> {"AIR_SENSOR_MUTEX"}
      [] t = "soil" -> {"SOIL_SENSOR_MUTEX"}
      [] t = "radio" -> {"RADIO_MUTEX"}
      [] OTHER -> {}

\* mutex.lock().await completes only while no other task holds the mutex.
CanLock(t) == \A u \in Tasks \ {t} : held[u] \cap TaskGuards(t) = {}

\* The guards of the arm are taken; they drop at the end of the arm.
Lock(t) == held' = [held EXCEPT ![t] = @ \cup TaskGuards(t)]
Unlock(t) == held' = [held EXCEPT ![t] = {}]

JoinCommand == [cmd |-> "Join", len |-> 0, from |-> "main", layout |-> <<>>]
NoCommand == [cmd |-> "none", len |-> 0, from |-> "none", layout |-> <<>>]

\* Channel::send: the message joins the queue at its tail, in a mutant at
\* its head.
Enqueue_AtHead(ch, msg) == <<msg>> \o ch

Enqueue(ch, msg) == Append(ch, msg)

\* Nothing handled, nothing received.
NoHist == [first |-> [t \in SensorTasks \cup {"radio"} |-> "none"], unsent |-> <<>>]

\* The first command a task handles is recorded.
Handled(t, cmd) ==
    IF hist.first[t] = "none" THEN [hist EXCEPT !.first[t] = cmd] ELSE hist

MainInit ==
    /\ m_pc = "init_air"
    /\ m_i = 0
    /\ m_msg = NoCommand
    /\ ctrl = [t \in Producers |-> <<>>]
    /\ task_pc = [t \in Producers |-> "receive"]
    /\ data_chnl = <<>>
    /\ radio_ctrl = <<>>
    /\ radio_pc = "receive"
    /\ radio_cmd = NoCommand
    /\ joined = FALSE
    /\ m_panic = FALSE
    /\ cycle = 0
    /\ got = <<>>
    /\ mfailed = {}
    /\ held = [t \in Tasks |-> {}]
    /\ hist = NoHist

\* channel.send(x).await: waits while the channel is full.
CanSend(ch, cap) == Len(ch) < cap

MainStep(from, to) == ~m_panic /\ m_pc = from /\ m_pc' = to

\* AIR_CTRL_CHNL.send(AirSensorCommand::Init).await
MainInitAir ==
    /\ MainStep("init_air", "init_soil")
    /\ CanSend(ctrl["air"], CtrlCapacity("air"))
    /\ ctrl' = [ctrl EXCEPT !["air"] = Enqueue(@, "Init")]
    /\ UNCHANGED <<m_i, m_msg, task_pc, data_chnl, radio_ctrl, radio_pc, radio_cmd,
                   joined, m_panic, cycle, got, mfailed>>
    /\ UNCHANGED held
    /\ UNCHANGED hist
    /\ UNCHANGED nonMain

\* SOIL_CTRL_CHNL.send(SoilSensorCommand::Init).await; Timer::after_secs(5).await
MainInitSoil ==
    /\ MainStep("init_soil", "send_join")
    /\ CanSend(ctrl["soil"], CtrlCapacity("soil"))
    /\ ctrl' = [ctrl EXCEPT !["soil"] = Enqueue(@, "Init")]
    /\ UNCHANGED <<m_i, m_msg, task_pc, data_chnl, radio_ctrl, radio_pc, radio_cmd,
                   joined, m_panic, cycle, got, mfailed>>
    /\ UNCHANGED held
    /\ UNCHANGED hist
    /\ UNCHANGED nonMain

\* RADIO_CTRL_CHNL.send(RadioCommand::Join(..)).await; Timer::after_secs(15).await
MainSendJoin ==
    /\ MainStep("send_join", "measure_air")
    /\ CanSend(radio_ctrl, RadioCtrlCapacity)
    /\ radio_ctrl' = Enqueue(radio_ctrl, JoinCommand)
    /\ UNCHANGED <<m_i, m_msg, ctrl, task_pc, data_chnl, radio_pc, radio_cmd,
                   joined, m_panic, cycle, got, mfailed>>
    /\ UNCHANGED held
    /\ UNCHANGED hist
    /\ UNCHANGED nonMain

\* loop { AIR_CTRL_CHNL.send(AirSensorCommand::Measure).await
MainMeasureAir ==
    /\ MainStep("measure_air", "measure_soil")
    /\ cycle < MaxCycles
    /\ CanSend(ctrl["air"], CtrlCapacity("air"))
    /\ ctrl' = [ctrl EXCEPT !["air"] = Enqueue(@, "Measure")]
    /\ cycle' = cycle + 1
    /\ got' = <<>>
    /\ mfailed' = {}
    /\ UNCHANGED <<m_i, m_msg, task_pc, data_chnl, radio_ctrl, radio_pc, radio_cmd,
                   joined, m_panic>>
    /\ UNCHANGED held
    /\ UNCHANGED hist
    /\ UNCHANGED nonMain

\* SOIL_CTRL_CHNL.send(SoilSensorCommand::Measure).await
MainMeasureSoil ==
    /\ MainStep("measure_soil", "measure_battery")
    /\ CanSend(ctrl["soil"], CtrlCapacity("soil"))
    /\ ctrl' = [ctrl EXCEPT !["soil"] = Enqueue(@, "Measure")]
    /\ UNCHANGED <<m_i, m_msg, task_pc, data_chnl, radio_ctrl, radio_pc, radio_cmd,
                   joined, m_panic, cycle, got, mfailed>>
    /\ UNCHANGED held
    /\ UNCHANGED hist
    /\ UNCHANGED nonMain

\* BATTERY_CTRL_CHNL.send(BatteryCommand::Capacity).await; for _ in 0..3 {
MainMeasureBattery ==
    /\ MainStep("measure_battery", "receive")
    /\ CanSend(ctrl["battery"], CtrlCapacity("battery"))
    /\ ctrl' = [ctrl EXCEPT !["battery"] = Enqueue(@, "Capacity")]
    /\ m_i' = 0
    /\ UNCHANGED <<m_msg, task_pc, data_chnl, radio_ctrl, radio_pc, radio_cmd,
                   joined, m_panic, cycle, got, mfailed>>
    /\ UNCHANGED held
    /\ UNCHANGED hist
    /\ UNCHANGED nonMain

\* match DATA_CHNL.receive().await { .. }: the payload is built from the arm
\* of the received variant.
MainReceive ==
    /\ MainStep("receive", "uplink")
    /\ data_chnl # <<>>
    /\ data_chnl' = Tail(data_chnl)
    /\ m_msg' = BuildUplink(Head(data_chnl))
    /\ got' = Append(got, Head(data_chnl))
    /\ UNCHANGED <<m_i, ctrl, task_pc, radio_ctrl, radio_pc, radio_cmd,
                   joined, m_panic, cycle, mfailed>>
    /\ UNCHANGED held
    /\ hist' = [hist EXCEPT !.unsent = Append(@, Head(data_chnl))]
    /\ UNCHANGED nonMain

\* RADIO_CTRL_CHNL.send(RadioCommand::Uplink..Data(payload)).await; } (next iteration)
MainSendUplink ==
    /\ ~m_panic
    /\ m_pc = "uplink"
    /\ CanSend(radio_ctrl, RadioCtrlCapacity)
    /\ radio_ctrl' = Enqueue(radio_ctrl, m_msg)
    /\ m_msg' = NoCommand
    /\ m_i' = m_i + 1
    /\ m_pc' = IF m_i + 1 < ResultsPerCycle THEN "receive" ELSE "tick"
    /\ UNCHANGED <<ctrl, task_pc, data_chnl, radio_pc, radio_cmd,
                   joined, m_panic, cycle, got, mfailed>>
    /\ UNCHANGED held
    /\ UNCHANGED hist
    /\ UNCHANGED nonMain

\* ticker.next().await; } (next round of the loop)
MainTick ==
    /\ MainStep("tick", "measure_air")
    /\ UNCHANGED <<m_i, m_msg, ctrl, task_pc, data_chnl, radio_ctrl, radio_pc, radio_cmd,
                   joined, m_panic, cycle, got, mfailed>>
    /\ UNCHANGED held
    /\ UNCHANGED hist
    /\ UNCHANGED nonMain

\* air_sensor_task / soil_sensor_task: command_channel.receive().await and
\* the lock of the sensor's mutex, which no other task takes.
SensorTaskReceive(t) ==
    /\ ~m_panic
    /\ task_pc[t] = "receive"
    /\ ctrl[t] # <<>>
    /\ ctrl' = [ctrl EXCEPT ![t] = Tail(@)]
    /\ task_pc' = [task_pc EXCEPT ![t] = IF Head(ctrl[t]) = "Init" THEN "init" ELSE "measure"]
    /\ UNCHANGED <<m_pc, m_i, m_msg, data_chnl, radio_ctrl, radio_pc, radio_cmd,
                   joined, m_panic, cycle, got, mfailed>>
    /\ CanLock(t)
    /\ Lock(t)
    /\ hist' = Handled(t, Head(ctrl[t]))
    /\ UNCHANGED nonMain

\* Init arm: sensor.init().await, success or failure only logged.
SensorTaskInit(t) ==
    /\ ~m_panic
    /\ task_pc[t] = "init"
    /\ task_pc' = [task_pc EXCEPT ![t] = "receive"]
    /\ UNCHANGED <<m_pc, m_i, m_msg, ctrl, data_chnl, radio_ctrl, radio_pc, radio_cmd,
                   joined, m_panic, cycle, got, mfailed>>
    /\ Unlock(t)
    /\ UNCHANGED hist
    /\ UNCHANGED nonMain

\* Measure arm: sensor.measure().await; Ok goes on to data_channel.send,
\* Err(_) => warn!(..) ends the arm.
SensorTaskMeasure(t) ==
    /\ ~m_panic
    /\ task_pc[t] = "measure"
    /\ \E ok \in BOOLEAN :
        /\ task_pc' = [task_pc EXCEPT ![t] = IF ok THEN "send" ELSE "receive"]
        /\ mfailed' = IF ok THEN mfailed ELSE mfailed \cup {t}
        /\ IF ok THEN UNCHANGED held ELSE Unlock(t)
    /\ UNCHANGED <<m_pc, m_i, m_msg, ctrl, data_chnl, radio_ctrl, radio_pc, radio_cmd,
                   joined, m_panic, cycle, got>>
    /\ UNCHANGED hist
    /\ UNCHANGED nonMain

\* battery_check_task: command_channel.receive().await
BatteryTaskReceive ==
    /\ ~m_panic
    /\ task_pc["battery"] = "receive"
    /\ ctrl["battery"] # <<>>
    /\ ctrl' = [ctrl EXCEPT !["battery"] = Tail(@)]
    /\ task_pc' = [task_pc EXCEPT !["battery"] = "measure"]
    /\ UNCHANGED <<m_pc, m_i, m_msg, data_chnl, radio_ctrl, radio_pc, radio_cmd,
                   joined, m_panic, cycle, got, mfailed>>
    /\ UNCHANGED held
    /\ UNCHANGED hist
    /\ UNCHANGED nonMain

\* battery_check_task: the two adc reads with .unwrap(), then the leds.
BatteryTaskMeasure ==
    /\ ~m_panic
    /\ task_pc["battery"] = "measure"
    /\ \E ok \in BOOLEAN :
        IF ok THEN /\ task_pc' = [task_pc EXCEPT !["battery"] = "send"]
                   /\ UNCHANGED m_panic
        ELSE /\ m_panic' = TRUE
             /\ UNCHANGED task_pc
    /\ UNCHANGED <<m_pc, m_i, m_msg, ctrl, data_chnl, radio_ctrl, radio_pc, radio_cmd,
                   joined, cycle, got, mfailed>>
    /\ UNCHANGED held
    /\ UNCHANGED hist
    /\ UNCHANGED nonMain

\* data_channel.send(SensorData::..).await, then the arm ends (the guard drops).
ProducerSend(t) ==
    /\ ~m_panic
    /\ task_pc[t] = "send"
    /\ CanSend(data_chnl, DataCapacityChnl)
    /\ data_chnl' = Enqueue(data_chnl, DataTag(t))
    /\ task_pc' = [task_pc EXCEPT ![t] = "receive"]
    /\ UNCHANGED <<m_pc, m_i, m_msg, ctrl, radio_ctrl, radio_pc, radio_cmd,
                   joined, m_panic, cycle, got, mfailed>>
    /\ Unlock(t)
    /\ UNCHANGED hist
    /\ UNCHANGED nonMain

\* radio_module_task: radio_channel.receive().await and radio_mutex.lock().await
RadioTaskReceive ==
    /\ ~m_panic
    /\ radio_pc = "receive"
    /\ radio_ctrl # <<>>
    /\ radio_cmd' = Head(radio_ctrl)
    /\ radio_ctrl' = Tail(radio_ctrl)
    /\ radio_pc' = IF Head(radio_ctrl).cmd = "Join" THEN "join" ELSE "send"
    /\ UNCHANGED <<m_pc, m_i, m_msg, ctrl, task_pc, data_chnl,
                   joined, m_panic, cycle, got, mfailed>>
    /\ CanLock("radio")
    /\ Lock("radio")
    /\ hist' = Handled("radio", Head(radio_ctrl).cmd)
    /\ UNCHANGED nonMain

\* Join arm: radio.join(&join_mode).await, the result only logged.
RadioTaskJoin ==
    /\ ~m_panic
    /\ radio_pc = "join"
    /\ \E ok \in BOOLEAN : joined' = ok
    /\ radio_pc' = "receive"
    /\ radio_cmd' = NoCommand
    /\ UNCHANGED <<m_pc, m_i, m_msg, ctrl, task_pc, data_chnl, radio_ctrl,
                   m_panic, cycle, got, mfailed>>
    /\ Unlock("radio")
    /\ UNCHANGED hist
    /\ UNCHANGED nonMain

\* Uplink arms: radio.send(&vec, 1, true).await, the result only logged.
RadioTaskSend ==
    /\ ~m_panic
    /\ radio_pc = "send"
    /\ radio_pc' = "receive"
    /\ radio_cmd' = NoCommand
    /\ UNCHANGED <<m_pc, m_i, m_msg, ctrl, task_pc, data_chnl, radio_ctrl,
                   joined, m_panic, cycle, got, mfailed>>
    /\ Unlock("radio")
    /\ hist' = [hist EXCEPT !.unsent = IF @ = <<>> THEN @ ELSE Tail(@)]
    /\ UNCHANGED nonMain

MainNext ==
    \/ MainInitAir \/ MainInitSoil \/ MainSendJoin
    \/ MainMeasureAir \/ MainMeasureSoil \/ MainMeasureBattery
    \/ MainReceive \/ MainSendUplink \/ MainTick
    \/ \E t \in SensorTasks : SensorTaskReceive(t) \/ SensorTaskInit(t) \/ SensorTaskMeasure(t)
    \/ BatteryTaskReceive \/ BatteryTaskMeasure
    \/ \E t \in Producers : ProducerSend(t)
    \/ RadioTaskReceive \/ RadioTaskJoin \/ RadioTaskSend

(***************************************************************************)
(* The Sensor trait implementations (src/src/sensor/*.rs): on(), off() and *)
(* verify() of AirSensor, SoilSensor and SystemSensor.  A call is recorded *)
(* with its result and with the bus commands and pin writes it issued.     *)
(***************************************************************************)
SensorImpls == {"AirSensor", "SoilSensor", "SystemSensor"}

NoCall == [sensor |-> "none", op |-> "none", res |-> "none", effects |-> <<>>,
           powered |-> FALSE]

Call(sensor, op, res, effects, powered) ==
    [sensor |-> sensor, op |-> op, res |-> res, effects |-> effects,
     powered |-> powered]

\* Whether the sensor is powered: the chip is out of sleep, the power pin is
\* high, the board is always on.
IsPowered(sensor) ==
    CASE sensor = "AirSensor" -> air_chip = "idle"
      [] sensor = "SoilSensor" -> soil_pin = "high"
      [] sensor = "SystemSensor" -> TRUE

\* AirSensor::new sets powered to true; SoilSensor::new drives the pin low.
SensorInit ==
    /\ air_powered = TRUE
    /\ air_chip = "idle"
    /\ soil_pin = "low"
    /\ prev_call = NoCall
    /\ last_call = NoCall

Record(c) ==
    /\ prev_call' = last_call
    /\ last_call' = c

\* The bus commands AirSensor::on issues: none when the powered field is set.
AirOnEffects(powered) == IF powered THEN <<>> ELSE <<"WAKE_UP">>

\* The bus commands AirSensor::off issues: none when the powered field is clear.
AirOffEffects(powered) == IF ~powered THEN <<>> ELSE <<"POWER_DOWN">>

\* AirSensor::on: the powered field is read and never written.
AirOn ==
    /\ \E busOk \in BOOLEAN :
          LET eff == AirOnEffects(air_powered)
              sent == eff # <<>>
          IN /\ (~sent => busOk)
             /\ air_chip' = IF sent /\ busOk THEN "idle" ELSE air_chip
             /\ Record(Call("AirSensor", "on", IF busOk THEN "Ok" ELSE "Err",
                            eff, IsPowered("AirSensor")))
    /\ UNCHANGED <<air_powered, soil_pin>>
    /\ UNCHANGED nonSensor

\* AirSensor::off: writes POWER_DOWN whenever the powered field is set; the
\* transfer can fail.
AirOff ==
    /\ \E busOk \in BOOLEAN :
          LET eff == AirOffEffects(air_powered)
              sent == eff # <<>>
          IN /\ (~sent => busOk)
             /\ air_chip' = IF sent /\ busOk THEN "sleep" ELSE air_chip
             /\ Record(Call("AirSensor", "off", IF busOk THEN "Ok" ELSE "Err",
                            eff, IsPowered("AirSensor")))
    /\ UNCHANGED <<air_powered, soil_pin>>
    /\ UNCHANGED nonSensor

\* AirSensor::verify: writes the serial number command, then reads 9 bytes;
\* either transfer can fail.
AirVerify ==
    /\ \E writeOk \in BOOLEAN, readOk \in BOOLEAN :
          /\ (~writeOk => readOk)
          /\ Record(Call("AirSensor", "verify",
                         IF writeOk /\ readOk THEN "Ok" ELSE "Err",
                         IF writeOk THEN <<"SERIAL_NUMBER", "READ">>
                                    ELSE <<"SERIAL_NUMBER">>,
                         IsPowered("AirSensor")))
    /\ UNCHANGED <<air_powered, air_chip, soil_pin>>
    /\ UNCHANGED nonSensor

\* The pin writes of SoilSensor::on and SoilSensor::off.
SoilOnEffects(p) == IF p = "low" THEN <<"set_high">> ELSE <<>>
SoilOffEffects(p) == IF p = "high" THEN <<"set_low">> ELSE <<>>

SoilOn ==
    /\ soil_pin' = SoilOnPin(soil_pin)
    /\ Record(Call("SoilSensor", "on", "Ok", SoilOnEffects(soil_pin),
                   IsPowered("SoilSensor")))
    /\ UNCHANGED <<air_powered, air_chip>>
    /\ UNCHANGED nonSensor

SoilOff ==
    /\ soil_pin' = SoilOffPin(soil_pin)
    /\ Record(Call("SoilSensor", "off", "Ok", SoilOffEffects(soil_pin),
                   IsPowered("SoilSensor")))
    /\ UNCHANGED <<air_powered, air_chip>>
    /\ UNCHANGED nonSensor

SoilVerify ==
    /\ Record(Call("SoilSensor", "verify", "Ok", <<>>, IsPowered("SoilSensor")))
    /\ UNCHANGED <<air_powered, air_chip, soil_pin>>
    /\ UNCHANGED nonSensor

\* SystemSensor::on, off and verify return Ok and touch nothing.
SystemOn ==
    /\ Record(Call("SystemSensor", "on", "Ok", <<>>, IsPowered("SystemSensor")))
    /\ UNCHANGED <<air_powered, air_chip, soil_pin>>
    /\ UNCHANGED nonSensor

SystemOff ==
    /\ Record(Call("SystemSensor", "off", "Ok", <<>>, IsPowered("SystemSensor")))
    /\ UNCHANGED <<air_powered, air_chip, soil_pin>>
    /\ UNCHANGED nonSensor

SystemVerify ==
    /\ Record(Call("SystemSensor", "verify", "Ok", <<>>, IsPowered("SystemSensor")))
    /\ UNCHANGED <<air_powered, air_chip, soil_pin>>
    /\ UNCHANGED nonSensor

SensorNext ==
    \/ AirOn
    \/ AirOff
    \/ AirVerify
    \/ SoilOn
    \/ SoilOff
    \/ SoilVerify
    \/ SystemOn
    \/ SystemOff
    \/ SystemVerify

(***************************************************************************)
(* The Board orchestrator (src/src/board/mod.rs).                          *)
(***************************************************************************)
BoardDataCapacity == 37     \* sensors_data: Vec<u8, 37>
BoardRecordBytes == 18      \* let bytes: [u8; 18] = d.into()
BoardAirRecordBytes == 11   \* let bytes: [u8; 11] = d.into()
BoardSoilRecordBytes == 8   \* let bytes: [u8; 8] = d.into()
JoinAttemptLimit == 9       \* if self.join_attempt > 9
WaitShortSecs == 600        \* State::Wait(60 * 10)
WaitLongSecs == 3600        \* State::Wait(60 * 60)

BoardStates == {"Init", "Auth", "Duty", "Send", "Wait"}
BoardSensors == {"board", "air", "soil"}
DbKeys == {"NewSKey", "AppSKey", "DevAddr"}

BoardRecordSize(s) ==
    CASE s = "board" -> BoardRecordBytes
      [] s = "air" -> BoardAirRecordBytes
      [] s = "soil" -> BoardSoilRecordBytes

RECURSIVE BoardDataLen(_)
BoardDataLen(d) ==
    IF d = <<>> THEN 0 ELSE BoardRecordSize(Head(d).sensor) + BoardDataLen(Tail(d))

\* sensors_data.extend_from_slice(&bytes).expect("should extend")
BoardExtend(d, s, ok, val) ==
    IF ~ok THEN [data |-> d, fits |-> TRUE]
    ELSE [data |-> Append(d, [sensor |-> s, reading |-> val]),
          fits |-> BoardDataLen(d) + BoardRecordSize(s) <= BoardDataCapacity]

\* A collect_data that goes on with whatever records succeeded.
Board_collect_data_Tolerant(d, ok, val) ==
    LET e1 == BoardExtend(<<>>, "board", ok["board"], val)
        e2 == BoardExtend(e1.data, "air", ok["air"], val)
        e3 == BoardExtend(e2.data, "soil", ok["soil"], val)
    IN [data |-> e3.data, res |-> "Ok"]

\* Board::collect_data.  ok[s]: whether collect_data of sensor s succeeds.
\* Every sensor is asked, the errors are gathered, and any error gives
\* Err(Error::Duty).
Board_collect_data(d, ok, val) ==
    LET e1 == BoardExtend(<<>>, "board", ok["board"], val)
        e2 == BoardExtend(e1.data, "air", ok["air"], val)
        e3 == BoardExtend(e2.data, "soil", ok["soil"], val)
        errors == {x \in BoardSensors : ~ok[x]}
    IN [data |-> e3.data,
        res |-> IF ~(e1.fits /\ e2.fits /\ e3.fits) THEN "Panic"
                ELSE IF errors = {} THEN "Ok" ELSE "Duty"]

\* Board::init with self.reset = false: Ok(()) iff no device's init failed.
Board_init(errors) == IF errors = {} THEN "Ok" ELSE "Init"

\* Board::get_session_keys over the gets that returned a value.
Board_get_session_keys(gets) == gets = DbKeys

BoardPersistOrder == <<"NewSKey", "AppSKey", "DevAddr">>

\* Board::auth.  gets: the keys whose get returns a value; np: the number of
\* puts of persist_session_keys that succeed.
Board_auth(stored, attempt, gets, joinOk, np) ==
    IF Board_get_session_keys(gets)
    THEN [stored |-> stored, join_attempt |-> attempt, mode |-> "ABP",
          res |-> IF joinOk THEN "Ok" ELSE "JoinFailed"]
    ELSE IF joinOk
    THEN [stored |-> stored \cup {BoardPersistOrder[i] : i \in 1..np},
          join_attempt |-> attempt, mode |-> "OTAA",
          res |-> IF np = 3 THEN "Ok" ELSE "Flash"]
    ELSE IF attempt > JoinAttemptLimit
    THEN [stored |-> stored, join_attempt |-> 0, mode |-> "OTAA",
          res |-> "JoinLimitReached"]
    ELSE [stored |-> stored, join_attempt |-> (attempt + 1) % U8Modulus,
          mode |-> "OTAA", res |-> "JoinFailed"]

\* Board::uplink's classification of the transceiver's result.
Board_uplink(resp) ==
    CASE resp \in {"DownlinkReceived", "NoAck", "RxComplete"} -> "Ok"
      [] resp = "SessionExpired" -> "JoinSessionExpired"
      [] OTHER -> "LoRaWAN"

\* The match arms of Board::run.
BoardRunInit(res) == IF res = "Ok" THEN [state |-> "Auth", secs |-> 0]
                     ELSE [state |-> "Wait", secs |-> WaitShortSecs]

BoardRunAuth(res) ==
    CASE res = "Ok" -> [state |-> "Duty", secs |-> 0]
      [] res = "JoinLimitReached" -> [state |-> "Wait", secs |-> WaitLongSecs]
      [] OTHER -> [state |-> "Wait", secs |-> WaitShortSecs]

BoardRunDuty(res) == IF res = "Ok" THEN [state |-> "Send", secs |-> 0]
                     ELSE [state |-> "Wait", secs |-> WaitShortSecs]

BoardRunSend(res) ==
    CASE res = "Ok" -> [state |-> "Duty", secs |-> 0]
      [] res = "JoinSessionExpired" -> [state |-> "Auth", secs |-> 0]
      [] OTHER -> [state |-> "Wait", secs |-> WaitShortSecs]

NoBoardLast == [op |-> "none", res |-> "none", failed |-> {}, sent |-> <<>>]

\* BoardBuilder::build
BoardInit ==
    /\ b_exec = "running"
    /\ b_state = "Init"
    /\ b_wait = 0
    /\ b_pc = "eval"
    /\ sensors_data = <<>>
    /\ join_attempt = 0
    /\ b_stored = {}
    /\ b_last = NoBoardLast

\* The image does not run the Board.
BoardAbsent ==
    /\ b_exec = "absent"
    /\ b_state = "Init"
    /\ b_wait = 0
    /\ b_pc = "eval"
    /\ sensors_data = <<>>
    /\ join_attempt = 0
    /\ b_stored = {}
    /\ b_last = NoBoardLast

BoardEvaluating(st) == b_exec = "running" /\ b_pc = "eval" /\ b_state = st

BoardGoto(nxt) ==
    /\ b_state' = nxt.state
    /\ b_wait' = nxt.secs
    /\ b_pc' = "tick"

\* State::Init => self.init().  errors: the sensors whose init failed (the
\* transceiver's init always succeeds); db: the database's init mounts, or
\* formats after a failed mount, or panics in format().unwrap().
BoardInitStep ==
    /\ BoardEvaluating("Init")
    /\ \E errors \in SUBSET BoardSensors, db \in {"mounted", "formatted", "panic"} :
        LET res == Board_init(errors)
        IN /\ b_stored' = IF db = "mounted" THEN b_stored ELSE {}
           /\ b_last' = [NoBoardLast EXCEPT !.op = "init",
                                            !.res = IF db = "panic" THEN "Panic" ELSE res,
                                            !.failed = errors]
           /\ IF db = "panic"
              THEN b_exec' = "panicked" /\ UNCHANGED <<b_state, b_wait, b_pc>>
              ELSE BoardGoto(BoardRunInit(res)) /\ UNCHANGED b_exec
    /\ UNCHANGED <<sensors_data, join_attempt>>
    /\ UNCHANGED nonBoard

\* State::Auth => self.auth()
BoardAuth ==
    /\ BoardEvaluating("Auth")
    /\ \E gets \in SUBSET b_stored, joinOk \in BOOLEAN, np \in 0..3 :
        LET a == Board_auth(b_stored, join_attempt, gets, joinOk, np)
        IN /\ (a.mode = "ABP" \/ ~joinOk) => np = 3
           /\ b_stored' = a.stored
           /\ join_attempt' = a.join_attempt
           /\ b_last' = [NoBoardLast EXCEPT !.op = "auth", !.res = a.res]
           /\ BoardGoto(BoardRunAuth(a.res))
    /\ UNCHANGED <<b_exec, sensors_data>>
    /\ UNCHANGED nonBoard

\* State::Duty => self.collect_data()
BoardDuty ==
    /\ BoardEvaluating("Duty")
    /\ \E ok \in [BoardSensors -> BOOLEAN], val \in 1..MaxReading :
        LET c == Board_collect_data(sensors_data, ok, val)
        IN /\ sensors_data' = c.data
           /\ b_last' = [NoBoardLast EXCEPT !.op = "duty", !.res = c.res,
                                            !.failed = {x \in BoardSensors : ~ok[x]}]
           /\ IF c.res = "Panic"
              THEN b_exec' = "panicked" /\ UNCHANGED <<b_state, b_wait, b_pc>>
              ELSE BoardGoto(BoardRunDuty(c.res)) /\ UNCHANGED b_exec
    /\ UNCHANGED <<join_attempt, b_stored>>
    /\ UNCHANGED nonBoard

\* State::Send => self.uplink()
BoardSend ==
    /\ BoardEvaluating("Send")
    /\ \E resp \in SendResponses :
        LET res == Board_uplink(resp)
        IN /\ b_last' = [NoBoardLast EXCEPT !.op = "send", !.res = res,
                                            !.sent = sensors_data]
           /\ BoardGoto(BoardRunSend(res))
    /\ UNCHANGED <<b_exec, sensors_data, join_attempt, b_stored>>
    /\ UNCHANGED nonBoard

\* State::Wait(secs) => { Timer::after_secs(secs).await; State::Init }
BoardWait ==
    /\ BoardEvaluating("Wait")
    /\ BoardGoto([state |-> "Init", secs |-> 0])
    /\ b_last' = [NoBoardLast EXCEPT !.op = "wait", !.res = "Ok"]
    /\ UNCHANGED <<b_exec, sensors_data, join_attempt, b_stored>>
    /\ UNCHANGED nonBoard

\* ticker.next().await at the end of the loop body
BoardTick ==
    /\ b_exec = "running"
    /\ b_pc = "tick"
    /\ b_pc' = "eval"
    /\ b_last' = [NoBoardLast EXCEPT !.op = "tick"]
    /\ UNCHANGED <<b_exec, b_state, b_wait, sensors_data, join_attempt, b_stored>>
    /\ UNCHANGED nonBoard

\* The processor restarts after a panic: BoardBuilder::build runs again, the
\* flash keeps its content.
BoardRestart ==
    /\ b_exec = "panicked"
    /\ b_exec' = "running"
    /\ b_state' = "Init"
    /\ b_wait' = 0
    /\ b_pc' = "eval"
    /\ sensors_data' = <<>>
    /\ join_attempt' = 0
    /\ b_last' = [NoBoardLast EXCEPT !.op = "restart"]
    /\ UNCHANGED b_stored
    /\ UNCHANGED nonBoard

BoardNext ==
    \/ BoardInitStep
    \/ BoardAuth
    \/ BoardDuty
    \/ BoardSend
    \/ BoardWait
    \/ BoardTick
    \/ BoardRestart

\* The image does not run the Device orchestrator.
DeviceAbsent ==
    /\ state = "Boot" /\ idle_secs = 0 /\ pc = "eval" /\ exec = "absent"
    /\ auth_attempt = 0 /\ data = <<>> /\ storage = EmptyStorage /\ soil_pwr = "low"
    /\ reset_flag = FALSE /\ join_count = 0 /\ fails = 0 /\ persisted = NoSession
    /\ probed = NoProbes /\ last = NoLast

(***************************************************************************)
(* Single-precision arithmetic, as the sensors' conversions use it (Rust   *)
(* f32: IEEE 754 binary32, every operation rounded to nearest, ties to     *)
(* even).  A value is sg * m * 2^e with m = 0 or 2^23 <= m < 2^24.  The    *)
(* conversions stay far from the subnormal and the infinite range, which   *)
(* are left out.                                                           *)
(***************************************************************************)
Two23 == 2^23
Two24 == 2^24

F32Zero == [sg |-> 1, m |-> 0, e |-> 0]

Sign(n) == IF n < 0 THEN -1 ELSE 1
Abs(n) == IF n < 0 THEN -n ELSE n

RECURSIVE BitLen(_)
BitLen(n) == IF n = 0 THEN 0 ELSE 1 + BitLen(n \div 2)

\* n with its lowest bit set when bits were dropped below it.
Jam(n, dropped) == IF dropped /\ n % 2 = 0 THEN n + 1 ELSE n

\* sg * n * 2^e rounded to 24 significant bits, ties to even (0 < n < 2^31).
\* A jammed n carries at least two bits below the 24 that are kept.
F32Round(sg, n, e) ==
    IF n = 0 THEN F32Zero
    ELSE LET k == BitLen(n) - 24
         IN IF k <= 0
            THEN [sg |-> sg, m |-> n * 2^(-k), e |-> e + k]
            ELSE LET q == n \div 2^k
                     r == n % 2^k
                     half == 2^(k - 1)
                     up == r > half \/ (r = half /\ q % 2 = 1)
                     m1 == IF up THEN q + 1 ELSE q
                 IN IF m1 = Two24
                    THEN [sg |-> sg, m |-> Two23, e |-> e + k + 1]
                    ELSE [sg |-> sg, m |-> m1, e |-> e + k]

\* `n as f32` for an integer n, |n| < 2^31.
F32FromInt(n) == F32Round(Sign(n), Abs(n), 0)

F32Neg(a) == IF a.m = 0 THEN a ELSE [a EXCEPT !.sg = -a.sg]

\* a + b, computed with three guard bits below the operand of larger exponent.
F32Add(a, b) ==
    IF a.m = 0 THEN b
    ELSE IF b.m = 0 THEN a
    ELSE LET x == IF a.e >= b.e THEN a ELSE b
             y == IF a.e >= b.e THEN b ELSE a
             d == x.e - y.e
             X == x.m * 8
             Y8 == y.m * 8
             Y == IF d >= 27 THEN 1 ELSE Jam(Y8 \div 2^d, Y8 % 2^d # 0)
             R == x.sg * X + y.sg * Y
         IN IF R = 0 THEN F32Zero ELSE F32Round(Sign(R), Abs(R), x.e - 3)

F32Sub(a, b) == F32Add(a, F32Neg(b))

\* a * b: the 48-bit product of the mantissas from their 12-bit halves, its
\* top 30 bits kept and the rest jammed.
F32Mul(a, b) ==
    IF a.m = 0 \/ b.m = 0 THEN F32Zero
    ELSE LET a1 == a.m \div 4096
             a0 == a.m % 4096
             b1 == b.m \div 4096
             b0 == b.m % 4096
             low == a0 * b0
             mid == a1 * b0 + a0 * b1 + (low \div 4096)
             hi == a1 * b1 + (mid \div 4096)
             rest == (mid % 4096) * 4096 + (low % 4096)
             M == Jam(hi * 64 + (rest \div 2^18), rest % 2^18 # 0)
         IN F32Round(a.sg * b.sg, M, a.e + b.e + 18)

\* n more bits of the quotient q with remainder r of a division by d.
RECURSIVE DivBits(_, _, _, _)
DivBits(q, r, d, n) ==
    IF n = 0 THEN <<q, r>>
    ELSE IF 2 * r >= d THEN DivBits(2 * q + 1, 2 * r - d, d, n - 1)
                       ELSE DivBits(2 * q, 2 * r, d, n - 1)

\* a / b for b # 0: 26 fraction bits of the quotient of the mantissas, the
\* remainder jammed.
F32Div(a, b) ==
    IF a.m = 0 THEN F32Zero
    ELSE LET qr == DivBits(a.m \div b.m, a.m % b.m, b.m, 26)
         IN F32Round(a.sg * b.sg, Jam(qr[1], qr[2] # 0), a.e - b.e - 26)

\* The f32 literal num/den (a decimal literal is parsed to the nearest f32).
F32Lit(num, den) == F32Div(F32FromInt(num), F32FromInt(den))

F32Negative(a) == a.m # 0 /\ a.sg = -1

\* a truncated toward zero, saturated well beyond every 16-bit range.
F32Trunc(a) ==
    IF a.e > 6 THEN a.sg * 2^30
    ELSE IF a.e >= 0 THEN a.sg * a.m * 2^(a.e)
    ELSE IF a.e <= -24 THEN 0
    ELSE a.sg * (a.m \div 2^(-a.e))

Clamp(n, lo, hi) == IF n < lo THEN lo ELSE IF n > hi THEN hi ELSE n

\* Rust's float-to-integer `as` casts: truncate toward zero, then saturate.
AsI16(a) == Clamp(F32Trunc(a), -32768, 32767)
AsU16(a) == Clamp(F32Trunc(a), 0, 65535)
AsU8(a) == Clamp(F32Trunc(a), 0, 255)

\* `(x >> 8) as u8` and `x as u8` of a 16-bit integer x, signed or unsigned:
\* the two bytes of its two's-complement pattern, high byte first.
HiByte(x) == ((x + 65536) % 65536) \div 256
LoByte(x) == ((x + 65536) % 65536) % 256

\* The signed value of a 16-bit big-endian pattern.
SignedBE(hi, lo) == IF hi >= 128 THEN hi * 256 + lo - 65536 ELSE hi * 256 + lo

(***************************************************************************)
(* Measurement and record encoding of the sensors: AirSensor::probe        *)
(* (sensor/air_sensor.rs), collect_data and From<Data> (air_sensor/mod.rs) *)
(* and SystemSensor::probe (sensor/system_sensor.rs).                      *)
(***************************************************************************)
\* u16::from_be_bytes.
FromBE(hi, lo) == hi * 256 + lo

\* The nine bytes the air sensor chip answers to a read-measurement command:
\* the CO2, temperature and humidity words, each followed by a checksum byte
\* (which the code does not look at).
SensorBuffer(co2, tw, hw) ==
    <<HiByte(co2), LoByte(co2), 0, HiByte(tw), LoByte(tw), 0,
      HiByte(hw), LoByte(hw), 0>>

\* temp = bytes_temp as f32 * 175.0f32 / (u16::MAX as f32) - 45.0
AirTemp(bytes_temp) ==
    F32Sub(F32Div(F32Mul(F32FromInt(bytes_temp), F32FromInt(175)),
                  F32FromInt(65535)),
           F32FromInt(45))

\* hum = bytes_hum as f32 * 100.0 / (u16::MAX as f32)
AirHum(bytes_hum) ==
    F32Div(F32Mul(F32FromInt(bytes_hum), F32FromInt(100)), F32FromInt(65535))

NoData == [temp |-> F32Zero, hum |-> F32Zero, co2 |-> 0]

\* The Data that collect_data builds from the buffer.
DataOfBuffer(buffer) ==
    [temp |-> AirTemp(FromBE(buffer[4], buffer[5])),
     hum |-> AirHum(FromBE(buffer[7], buffer[8])),
     co2 |-> FromBE(buffer[1], buffer[2])]

\* A Data written with decimal literals, in tenths.
DataOfTenths(temp10, hum10, co2) ==
    [temp |-> F32Lit(temp10, 10), hum |-> F32Lit(hum10, 10), co2 |-> co2]

\* The record with its 16-bit values low byte first.
AirRecord_LittleEndian(temp_scl, hum_scl, co2) ==
    <<1, 103, LoByte(temp_scl), HiByte(temp_scl),
      1, 104, hum_scl,
      1, 101, LoByte(co2), HiByte(co2)>>

\* The 11 bytes of the air record: channel 0x01 with types 0x67 (103), 0x68
\* (104) and 0x65 (101); the 16-bit values high byte first.
AirRecord(temp_scl, hum_scl, co2) ==
    <<1, 103, HiByte(temp_scl), LoByte(temp_scl),
      1, 104, hum_scl,
      1, 101, HiByte(co2), LoByte(co2)>>

\* impl From<Data> for [u8; 11].
From_Data(val) ==
    LET temp_scl == AsI16(F32Mul(val.temp, F32FromInt(10)))
        hum_scl == AsU8(F32Mul(val.hum, F32FromInt(2)))
    IN AirRecord(temp_scl, hum_scl, val.co2)

\* The encoding at the end of AirSensor::probe.
AirProbeEncode(buffer) ==
    LET temp == AirTemp(FromBE(buffer[4], buffer[5]))
        hum == AirHum(FromBE(buffer[7], buffer[8]))
        co2 == FromBE(buffer[1], buffer[2])
        temp_scl == AsI16(F32Mul(temp, F32FromInt(10)))
        hum_scl == AsU8(F32Mul(hum, F32FromInt(2)))
    IN AirRecord(temp_scl, hum_scl, co2)

\* SystemSensor::get_temperature: the chip temperature rounded to tenths
\* (the i16 rounded_temp_x10) and the f32 it returns.
get_temperature(adc_raw) ==
    LET adc_voltage == F32Div(F32Mul(F32FromInt(adc_raw), F32Lit(33, 10)),
                              F32FromInt(4096))
        temp == F32Sub(F32FromInt(27),
                       F32Div(F32Sub(adc_voltage, F32Lit(706, 1000)),
                              F32Lit(1721, 1000000)))
        sign == IF F32Negative(temp) THEN F32FromInt(-1) ELSE F32FromInt(1)
        rounded_temp_x10 == AsI16(F32Add(F32Mul(temp, F32FromInt(10)),
                                         F32Mul(F32Lit(5, 10), sign)))
    IN [rounded_temp_x10 |-> rounded_temp_x10,
        temp |-> F32Div(F32FromInt(rounded_temp_x10), F32FromInt(10))]

\* (adc_raw as f32) * 3.3 * 3.0 / 4096.0
TripledVoltage(adc_raw) ==
    F32Div(F32Mul(F32Mul(F32FromInt(adc_raw), F32Lit(33, 10)), F32FromInt(3)),
           F32FromInt(4096))

\* SystemSensor::get_battery_capacity: (adc_voltage, percentage).
get_battery_capacity(adc_raw) ==
    LET adc_voltage == TripledVoltage(adc_raw)
        percentage == F32Mul(F32Div(F32Sub(adc_voltage, F32FromInt(3)),
                                    F32Sub(F32Lit(42, 10), F32FromInt(3))),
                             F32FromInt(100))
    IN <<adc_voltage, percentage>>

\* SystemSensor::get_vsys_voltage.
get_vsys_voltage(adc_raw) == TripledVoltage(adc_raw)

\* SystemSensor::get_power_source as the byte probe stores.
get_power_source(usb_pwr_high) == IF usb_pwr_high THEN 1 ELSE 0

\* The 18 bytes SystemSensor::probe builds.
SystemProbeEncode(adc_temp, adc_btr, adc_vsys, usb_pwr_high) ==
    LET temp == get_temperature(adc_temp).temp
        btr == get_battery_capacity(adc_btr)
        vsys_voltage == get_vsys_voltage(adc_vsys)
        temp_scl == AsU16(F32Mul(temp, F32FromInt(10)))
        btr_voltage_scl == AsU16(F32Mul(btr[1], F32FromInt(100)))
        btr_capacity_scl == AsU8(F32Mul(btr[2], F32FromInt(2)))
        vsys_voltage_scl == AsU16(F32Mul(vsys_voltage, F32FromInt(100)))
    IN <<3, 103, HiByte(temp_scl), LoByte(temp_scl),
         3, 2, HiByte(btr_voltage_scl), LoByte(btr_voltage_scl),
         3, 104, btr_capacity_scl,
         4, 2, HiByte(vsys_voltage_scl), LoByte(vsys_voltage_scl),
         4, 0, get_power_source(usb_pwr_high)>>

\* One operation on the bus, on the timer or on the converter.
BusWrite(cmd, ok) == [op |-> "write", arg |-> cmd, ms |-> 0, ok |-> ok]
BusRead(ok) == [op |-> "read", arg |-> "buffer", ms |-> 0, ok |-> ok]
Delay(ms) == [op |-> "delay", arg |-> "timer", ms |-> ms, ok |-> TRUE]
AdcRead(channel, ok) == [op |-> "adc", arg |-> channel, ms |-> 0, ok |-> ok]

\* The operations of AirSensor::probe (sensor/air_sensor.rs): each failure
\* returns at once.
AirProbeBus(w1, w2, r) ==
    <<BusWrite("MEASURE_SINGLE_SHOT_COMMAND", w1)>>
    \o (IF ~w1 THEN <<>>
        ELSE <<Delay(5000), BusWrite("READ_MEASUREMENT_COMMAND", w2)>>
             \o (IF ~w2 THEN <<>> ELSE <<Delay(1), BusRead(r)>>))

\* The operations of collect_data (air_sensor/mod.rs): the read follows the
\* read-measurement command directly.
AirCollectBus(w1, w2, r) ==
    <<BusWrite("MEASURE_SINGLE_SHOT_COMMAND", w1)>>
    \o (IF ~w1 THEN <<>>
        ELSE <<Delay(5000), BusWrite("READ_MEASUREMENT_COMMAND", w2)>>
             \o (IF ~w2 THEN <<>> ELSE <<BusRead(r)>>))

\* The converter reads of SystemSensor::probe, up to the first that fails.
SystemProbeBus(t, b, v) ==
    <<AdcRead("temp", t)>>
    \o (IF ~t THEN <<>>
        ELSE <<AdcRead("btr", b)>>
             \o (IF ~b THEN <<>> ELSE <<AdcRead("vsys", v)>>))

AllOk(bus) == \A i \in 1..Len(bus) : bus[i].ok

\* Inputs of the measurements.
DataTemps == {-400, -50, -1, 0, 3, 234, 1250}
DataHums == {0, 552, 1000}
Co2Values == {0, 842, 40000}
TempWords == {0, 14979, 16852, 25614, 25615, 65535}
HumWords == {0, 36175, 65535}
AdcTemps == {0, 700, 876, 940, 1500, 4095}
AdcBtrs == {0, 1241, 1500, 1737, 4095}
AdcVsys == {0, 2000, 4095}

NoInput == [fn |-> "none", temp10 |-> 0, hum10 |-> 0, co2 |-> 0,
            buffer |-> <<>>, adc_temp |-> 0, adc_btr |-> 0, adc_vsys |-> 0,
            usb |-> FALSE]

NoMeasure == [op |-> "none", res |-> "none", bus |-> <<>>, data |-> NoData,
              bytes |-> <<>>]

MeasureParked ==
    /\ meas_in = NoInput
    /\ meas_out = NoMeasure

\* One measurement is set up: a Data to convert, the answer of the air
\* sensor chip to one of the two measurement sequences, or the readings of
\* the converter's channels.
MeasureInit ==
    /\ meas_out = NoMeasure
    /\ \/ \E t \in DataTemps, h \in DataHums, c \in Co2Values :
             meas_in = [NoInput EXCEPT !.fn = "into", !.temp10 = t,
                                       !.hum10 = h, !.co2 = c]
       \/ \E f \in {"probe", "collect_data"}, c \in Co2Values,
             tw \in TempWords, hw \in HumWords :
             meas_in = [NoInput EXCEPT !.fn = f, !.co2 = c,
                                       !.buffer = SensorBuffer(c, tw, hw)]
       \/ \E t \in AdcTemps, b \in AdcBtrs, v \in AdcVsys, u \in BOOLEAN :
             meas_in = [NoInput EXCEPT !.fn = "system", !.adc_temp = t,
                                       !.adc_btr = b, !.adc_vsys = v,
                                       !.usb = u]

\* AirSensor::probe (sensor/air_sensor.rs).
AirProbe ==
    /\ meas_in.fn = "probe"
    /\ \E w1, w2, r \in BOOLEAN :
          LET bus == AirProbeBus(w1, w2, r)
          IN meas_out' = IF AllOk(bus)
                         THEN [NoMeasure EXCEPT !.op = "probe", !.res = "Ok",
                                   !.bus = bus,
                                   !.data = DataOfBuffer(meas_in.buffer),
                                   !.bytes = AirProbeEncode(meas_in.buffer)]
                         ELSE [NoMeasure EXCEPT !.op = "probe", !.res = "I2C",
                                   !.bus = bus]
    /\ UNCHANGED meas_in
    /\ UNCHANGED nonMeasure

\* collect_data (air_sensor/mod.rs).
AirCollectData ==
    /\ meas_in.fn = "collect_data"
    /\ \E w1, w2, r \in BOOLEAN :
          LET bus == AirCollectBus(w1, w2, r)
          IN meas_out' = IF AllOk(bus)
                         THEN [NoMeasure EXCEPT !.op = "collect_data",
                                   !.res = "Ok", !.bus = bus,
                                   !.data = DataOfBuffer(meas_in.buffer)]
                         ELSE [NoMeasure EXCEPT !.op = "collect_data",
                                   !.res = "I2C", !.bus = bus]
    /\ UNCHANGED meas_in
    /\ UNCHANGED nonMeasure

\* `d.into()`: From<Data> applied to a Data written out, or to the Data a
\* successful collect_data returned (board/mod.rs:239).
DataInto ==
    /\ \/ meas_in.fn = "into" /\ meas_out.op = "none"
       \/ meas_out.op = "collect_data" /\ meas_out.res = "Ok"
    /\ LET val == IF meas_in.fn = "into"
                  THEN DataOfTenths(meas_in.temp10, meas_in.hum10, meas_in.co2)
                  ELSE meas_out.data
       IN meas_out' = [meas_out EXCEPT !.op = "into", !.res = "Ok",
                           !.data = val, !.bytes = From_Data(val)]
    /\ UNCHANGED meas_in
    /\ UNCHANGED nonMeasure

\* SystemSensor::probe (sensor/system_sensor.rs).
SystemProbe ==
    /\ meas_in.fn = "system"
    /\ \E t, b, v \in BOOLEAN :
          LET bus == SystemProbeBus(t, b, v)
          IN meas_out' = IF AllOk(bus)
                         THEN [NoMeasure EXCEPT !.op = "system", !.res = "Ok",
                                   !.bus = bus,
                                   !.bytes = SystemProbeEncode(meas_in.adc_temp,
                                       meas_in.adc_btr, meas_in.adc_vsys,
                                       meas_in.usb)]
                         ELSE [NoMeasure EXCEPT !.op = "system", !.res = "Adc",
                                   !.bus = bus]
    /\ UNCHANGED meas_in
    /\ UNCHANGED nonMeasure

(***************************************************************************)
(* The frame-counter store (database/mod.rs).  It opens the key-value      *)
(* database at __config_start, the flash region that FlashStorage          *)
(* (storage/flash_storage.rs) opens for the session parts: both write      *)
(* their one-byte key tags into `storage`.                                 *)
(***************************************************************************)
CounterKeys == {"UPLINK_FRAME_COUNTER", "DOWNLINK_FRAME_COUNTER"}

\* impl From<&Key> for [u8; 1] (database/mod.rs)
CounterTag(k) ==
    CASE k = "UPLINK_FRAME_COUNTER" -> 0
      [] k = "DOWNLINK_FRAME_COUNTER" -> 1

\* The 16-bit values put: both bytes equal, both different, the ends.
CounterValues == {0, 1, 256, 43981, 65535}

\* u16::to_be_bytes written low byte first.
to_le_bytes(v) == <<v % 256, v \div 256>>

\* u16::to_be_bytes
to_be_bytes(v) == <<v \div 256, v % 256>>

\* u16::from_be_bytes
from_be_bytes(b) == b[1] * 256 + b[2]

\* The value a put of the counter v stores.
CounterValue(v) == [part |-> "u16", join |-> 0, bytes |-> to_be_bytes(v)]

None == [some |-> FALSE, value |-> 0]
Some(v) == [some |-> TRUE, value |-> v]

\* EkvDatabase::put with the write and the commit succeeding.
Database_put(st, key, value) ==
    [st EXCEPT ![CounterTag(key)] = CounterValue(value)]

\* EkvDatabase::get: rtx.read into a buffer of two bytes, then
\* u16::from_be_bytes; a key never written, a read that fails and a stored
\* value that does not fit the buffer give None (.ok()).
Database_get(st, key, readOk) ==
    LET v == st[CounterTag(key)]
    IN IF readOk /\ v.part = "u16" THEN Some(from_be_bytes(v.bytes)) ELSE None

NoDbOp == [op |-> "none", store |-> "none", key |-> "none", value |-> 0,
           res |-> "none", got |-> None]

StoreInit ==
    /\ db_exec = "running"
    /\ db_last = NoDbOp

\* EkvDatabase::init: a failed mount formats the region; a failed format
\* panics (unwrap).
DbInit ==
    /\ db_exec = "running"
    /\ \E mountOk \in BOOLEAN, formatOk \in BOOLEAN :
          /\ storage' = IF ~mountOk /\ formatOk THEN EmptyStorage ELSE storage
          /\ db_exec' = IF ~mountOk /\ ~formatOk THEN "panicked" ELSE "running"
          /\ db_last' = [NoDbOp EXCEPT !.op = "init", !.store = "database",
                            !.res = IF mountOk THEN "Ok"
                                    ELSE IF formatOk THEN "Formatted" ELSE "Panic"]
    /\ UNCHANGED nonStore

\* EkvDatabase::put: a failed write or commit panics (expect) and stores
\* nothing.
DbPut ==
    /\ db_exec = "running"
    /\ \E key \in CounterKeys, value \in CounterValues, ok \in BOOLEAN :
          /\ storage' = IF ok THEN Database_put(storage, key, value) ELSE storage
          /\ db_exec' = IF ok THEN "running" ELSE "panicked"
          /\ db_last' = [NoDbOp EXCEPT !.op = "put", !.store = "database",
                            !.key = key, !.value = value,
                            !.res = IF ok THEN "Ok" ELSE "Panic"]
    /\ UNCHANGED nonStore

\* EkvDatabase::get
DbGet ==
    /\ db_exec = "running"
    /\ \E key \in CounterKeys, readOk \in BOOLEAN :
          db_last' = [NoDbOp EXCEPT !.op = "get", !.store = "database",
                         !.key = key, !.res = IF readOk THEN "Ok" ELSE "Read",
                         !.got = Database_get(storage, key, readOk)]
    /\ UNCHANGED <<storage, db_exec>>
    /\ UNCHANGED nonStore

\* FlashStorage::put of one part of a session.
SessionPut ==
    /\ db_exec = "running"
    /\ \E j \in 1..MaxJoins, i \in 1..3, ok \in BOOLEAN :
          /\ storage' = IF ok THEN StoragePut(storage, PersistOrder[i], SessionOf(j)[i])
                        ELSE storage
          /\ db_last' = [NoDbOp EXCEPT !.op = "put", !.store = "storage",
                            !.key = PersistOrder[i], !.value = j,
                            !.res = IF ok THEN "Ok" ELSE "Write"]
    /\ UNCHANGED db_exec
    /\ UNCHANGED nonStore

\* The program starts again after a panic; the flash keeps its content.
DbRestart ==
    /\ db_exec = "panicked"
    /\ db_exec' = "running"
    /\ db_last' = [NoDbOp EXCEPT !.op = "restart"]
    /\ UNCHANGED storage
    /\ UNCHANGED nonStore

(***************************************************************************)
(* Specifications.  Each runs one part of the program; the state of the    *)
(* other parts stays as constructed.                                       *)
(***************************************************************************)
DeviceParked ==
    /\ state = "Boot" /\ idle_secs = 0 /\ pc = "eval" /\ exec = "running"
    /\ auth_attempt = 0 /\ data = <<>> /\ storage = EmptyStorage /\ soil_pwr = "low"
    /\ reset_flag = FALSE /\ join_count = 0 /\ fails = 0 /\ persisted = NoSession
    /\ probed = NoProbes /\ last = NoLast

Init == DeviceInit /\ MainInit /\ SensorInit /\ BoardAbsent /\ MeasureParked /\ StoreInit

Next == DeviceNext

Spec == Init /\ [][Next]_vars

\* The orchestrator under fair scheduling: every call that run() awaits
\* returns (the executor polls the one task until it completes) and every
\* timer wait elapses (Timer::after_secs in Idle, ticker.next() after each
\* evaluation).
Fairness ==
    /\ WF_vars(Boot) /\ WF_vars(Auth) /\ WF_vars(Duty) /\ WF_vars(Send)
    /\ WF_vars(Idle) /\ WF_vars(Tick)

\* One run of Device::run: a panic or a power loss ends it.
NextLive == Boot \/ Auth \/ Duty \/ Send \/ Idle \/ Tick

SpecLive == Init /\ [][NextLive]_vars /\ Fairness

InitMain == MainInit /\ DeviceParked /\ SensorInit /\ BoardAbsent /\ MeasureParked /\ StoreInit

NextMain == MainNext

SpecMain == InitMain /\ [][NextMain]_vars

InitSensor == SensorInit /\ DeviceParked /\ MainInit /\ BoardAbsent /\ MeasureParked /\ StoreInit

NextSensor == SensorNext

SpecSensor == InitSensor /\ [][NextSensor]_vars

\* The image runs one of the two orchestrators, the Device or the Board.
InitOrchestrators ==
    /\ MainInit /\ SensorInit /\ MeasureParked /\ StoreInit
    /\ \/ (DeviceInit /\ BoardAbsent)
       \/ (DeviceAbsent /\ BoardInit)

NextOrchestrators ==
    \/ Boot \/ Auth \/ Duty \/ Send \/ Idle \/ Tick \/ Restart
    \/ BoardInitStep \/ BoardAuth \/ BoardDuty \/ BoardSend \/ BoardWait
    \/ BoardTick \/ BoardRestart

SpecOrchestrators == InitOrchestrators /\ [][NextOrchestrators]_vars

\* The measurements and their encodings, on their own.
InitMeasure ==
    MeasureInit /\ DeviceParked /\ MainInit /\ SensorInit /\ BoardAbsent /\ StoreInit

NextMeasure == AirProbe \/ AirCollectData \/ DataInto \/ SystemProbe

SpecMeasure == InitMeasure /\ [][NextMeasure]_vars

\* The two stores on the flash region, on their own.
InitStore ==
    StoreInit /\ DeviceParked /\ MainInit /\ SensorInit /\ BoardAbsent /\ MeasureParked

NextStore == DbInit \/ DbPut \/ DbGet \/ SessionPut \/ DbRestart

SpecStore == InitStore /\ [][NextStore]_vars

(***************************************************************************)
(* Claims about the Device orchestrator.                                   *)
(***************************************************************************)
OrchestratorOps == {"boot", "auth", "duty", "send"}

\* C1: every outcome of boot, auth, collect_data and uplink resolves to one of
\* the states Boot/Auth/Duty/Send/Idle, a put failure while persisting the
\* session after a successful full join included: the run loop never panics.
\* (A loss of power is not an outcome of the code and is left out.)
C1_EveryOutcomeHasNextState ==
    (last.op \in OrchestratorOps /\ last.res # "PowerLost")
        => (exec = "running" /\ state \in States /\ pc = "tick")

\* C2: starting from retry counter 0 with no stored session, after exactly 10
\* consecutive failed full joins the orchestrator is in Idle with the long
\* backoff and the retry counter is 0.
C2_TenFailuresThenIdle ==
    (fails = 10 /\ storage = EmptyStorage)
        => (state = "Idle" /\ idle_secs = AuthFailIdleSecs /\ auth_attempt = 0)

\* C3: for every N with 0 <= N < 10, starting from retry counter 0, N failed
\* full joins keep the orchestrator in Auth (N Auth -> Auth retries, no Idle),
\* and the successful full join that follows them leads into Duty.
C3_RetriesThenDuty ==
    /\ fails \in 1..9 => (exec = "running" /\ state = "Auth")
    /\ (last.op = "auth" /\ last.mode = "OTAA" /\ last.joined # NoSession
        /\ last.run0 /\ last.prior < 10 /\ last.res # "PowerLost")
            => (exec = "running" /\ state = "Duty")

SomeGetAbsent == \E k \in Keys : last.gets[k] = Absent
AllGetsPresent == \A k \in Keys : last.gets[k] # Absent

\* C4: the session load reports a session as present only if all three gets
\* return a value; when any one is absent the load reports absent and auth
\* performs a full join, never a rejoin built from the parts that were present.
C4_LoadAllOrNothing ==
    last.op = "auth" =>
        /\ (last.keys # NoSession) <=> AllGetsPresent
        /\ SomeGetAbsent => last.mode = "OTAA"
        /\ last.mode = "ABP" =>
              last.keys = <<last.gets["NewSKey"], last.gets["AppSKey"], last.gets["DevAddr"]>>

C4_Witness ==
    /\ last.op = "auth"
    /\ SomeGetAbsent
    /\ \E k \in Keys : last.gets[k] # Absent
    /\ last.mode = "OTAA"
    /\ last.keys = NoSession

\* C5: after any history of joins in which a crash or a put failure interrupts
\* the persist between its three writes, a session load never reports as
\* present a triple whose three parts were written by different joins.
C5_NoMixedSession ==
    (last.op = "auth" /\ last.keys # NoSession)
        => (last.keys[1].join = last.keys[2].join /\ last.keys[2].join = last.keys[3].join)

\* C6: session round trip.  After a persist whose three puts succeeded has
\* stored (network key, application key, device address), every get that
\* returns a value returns the part stored under its own key, and a load whose
\* three gets return a value returns exactly that triple, in the same tuple
\* positions; a load never returns any other triple.
C6_SessionRoundTrip ==
    (last.op = "auth" /\ last.stored # NoSession) =>
        /\ last.gets["NewSKey"] \in {Absent, last.stored[1]}
        /\ last.gets["AppSKey"] \in {Absent, last.stored[2]}
        /\ last.gets["DevAddr"] \in {Absent, last.stored[3]}
        /\ last.stored[1].part = "nwk" /\ last.stored[2].part = "app" /\ last.stored[3].part = "dev"
        /\ AllGetsPresent => last.keys = last.stored
        /\ last.keys \in {NoSession, last.stored}

C6_Witness ==
    /\ last.op = "auth"
    /\ last.stored # NoSession
    /\ last.keys = last.stored
    /\ last.mode = "ABP"

\* C7: after any sequence of Duty cycles, a collect_data in which all three
\* probes succeed leaves the payload with length 18 + 4 + 11 = 33, and no
\* append ever exceeds the capacity of 33 (the unwrap on extend never fails).
C7_PayloadLength ==
    /\ DataLen(data) <= DataCapacity
    /\ last.op = "duty" =>
        /\ last.res # "Panic"
        /\ last.res = "Ok" =>
              /\ DataLen(data) = SystemRecordSize + SoilRecordSize + AirRecordSize
              /\ DataLen(data) = 33

C7_Witness ==
    /\ last.op = "duty"
    /\ last.res = "Ok"
    /\ DataLen(last.before) = 33
    /\ DataLen(data) = 33

(***************************************************************************)
(* Claims about the channel-based program.                                 *)
(***************************************************************************)
RECURSIVE SeqToSet(_)
SeqToSet(q) == IF q = <<>> THEN {} ELSE {Head(q)} \cup SeqToSet(Tail(q))

NoDuplicates(q) == Cardinality(SeqToSet(q)) = Len(q)

\* The record layout of each result variant: the channel id of its source
\* sensor, the value types in order, and the RadioCommand variant.
TagChannel(tag) == CASE tag = "Air" -> 1 [] tag = "Soil" -> 2 [] tag = "Status" -> 3
TagTypes(tag) ==
    CASE tag = "Air" -> <<103, 104, 101>>
      [] tag = "Soil" -> <<103, 101>>
      [] tag = "Status" -> <<103, 2, 104>>
TagCommand(tag) ==
    CASE tag = "Air" -> "UplinkAirData"
      [] tag = "Soil" -> "UplinkSoilData"
      [] tag = "Status" -> "UplinkStatusData"
\* Value bytes of a record type: 0x67 temperature 2, 0x68 humidity 1,
\* 0x65 illuminance 2, 0x02 analog input 2.
TypeWidth(ty) == IF ty = 104 THEN 1 ELSE 2

RECURSIVE LayoutLen(_)
LayoutLen(l) == IF l = <<>> THEN 0 ELSE 2 + TypeWidth(Head(l)[2]) + LayoutLen(Tail(l))

MatchesTag(c) ==
    c.cmd \in {"none", "Join"} \/
        /\ c.from \in {"Air", "Soil", "Status"}
        /\ c.cmd = TagCommand(c.from)
        /\ Len(c.layout) = Len(TagTypes(c.from))
        /\ \A i \in 1..Len(c.layout) :
              c.layout[i] = <<TagChannel(c.from), TagTypes(c.from)[i]>>
        /\ c.len = LayoutLen(c.layout)

\* C8: in every duty cycle in which all three measurements succeed the
\* consumer receives exactly three results, exactly one each from the air,
\* soil and status producers, whatever the arrival order, and every uplink
\* payload is built from the record layout of its result's tag.
C8_ThreeTaggedResults ==
    /\ Len(got) <= ResultsPerCycle
    /\ NoDuplicates(got)
    /\ (m_pc = "tick" /\ mfailed = {}) =>
          (Len(got) = 3 /\ SeqToSet(got) = {"Air", "Soil", "Status"})
    /\ MatchesTag(m_msg)
    /\ MatchesTag(radio_cmd)
    /\ \A i \in 1..Len(radio_ctrl) : MatchesTag(radio_ctrl[i])
    /\ m_pc = "uplink" => (m_msg.from = got[Len(got)] /\ m_msg.cmd # "none")

\* A second cycle completes with the results arriving in the reverse of the
\* order in which the commands were sent.
C8_Witness ==
    /\ m_pc = "tick"
    /\ cycle = 2
    /\ mfailed = {}
    /\ got = <<"Status", "Soil", "Air">>
    /\ radio_cmd.cmd = "UplinkSoilData"

\* main waits in DATA_CHNL.receive() and nothing is left that could send:
\* every producer waits for a command and every command channel is empty.
MainBlockedForever ==
    /\ ~m_panic
    /\ m_pc = "receive"
    /\ data_chnl = <<>>
    /\ \A t \in Producers : task_pc[t] = "receive" /\ ctrl[t] = <<>>

\* C9: when an air or soil measurement fails in a duty cycle, the failure is
\* only logged, the sensor contributes no record, and the main loop still
\* completes the cycle and goes on to the next cycle's Measure commands: it is
\* never left waiting for a result that no task will send.
C9_FailedReadDoesNotBlockMain ==
    (mfailed \cap SensorTasks # {}) => ~MainBlockedForever

\* Once main is blocked this way it stays blocked.
MainBlockedIsForever == [][MainBlockedForever => MainBlockedForever']_vars

\* Two calls in a row of the same operation on the same sensor.
TwiceInARow(op) ==
    /\ prev_call.op = op
    /\ last_call.op = op
    /\ prev_call.sensor = last_call.sensor

\* C10: for AirSensor, SoilSensor and SystemSensor, on() called twice in a row
\* on an already-powered sensor, and off() called twice in a row, return
\* success both times, and the second call issues no bus command and no pin
\* write.
C10_OnOffIdempotent ==
    ((TwiceInARow("on") /\ prev_call.powered) \/ TwiceInARow("off"))
        => /\ prev_call.res = "Ok"
           /\ last_call.res = "Ok"
           /\ last_call.effects = <<>>

\* The part of C10 that the implementations keep: on() twice on a powered
\* sensor, and off() twice on the soil and system sensors.
SensorIdempotentWhereKept ==
    ((TwiceInARow("on") /\ prev_call.powered)
        \/ (TwiceInARow("off") /\ last_call.sensor # "AirSensor"))
        => /\ prev_call.res = "Ok"
           /\ last_call.res = "Ok"
           /\ last_call.effects = <<>>

\* The second of two successful AirSensor::off calls in a row writes
\* POWER_DOWN to a chip that is already asleep.
AirOffTwiceWritesBus ==
    /\ TwiceInARow("off")
    /\ last_call.sensor = "AirSensor"
    /\ prev_call.res = "Ok"
    /\ ~last_call.powered
    /\ last_call.effects = <<"POWER_DOWN">>

(***************************************************************************)
(* Claims about the Device orchestrator, continued.                        *)
(***************************************************************************)
\* C11: the radio outcome of Send determines the next state: downlink
\* received, rx complete and no ack lead to Duty; session expired leads to
\* Auth; every other radio error leads to Idle.
C11_SendOutcomeNextState ==
    last.op = "send" =>
        /\ last.resp \in {"DownlinkReceived", "RxComplete", "NoAck"} => state = "Duty"
        /\ last.resp = "SessionExpired" => state = "Auth"
        /\ last.resp \notin {"DownlinkReceived", "RxComplete", "NoAck", "SessionExpired"}
              => state = "Idle"

C11_Witness ==
    /\ last.op = "send"
    /\ last.resp = "RxComplete"
    /\ state = "Duty"
    /\ DataLen(last.sent) = 33

AllPartsStored == \A k \in Keys : storage[KeyTag(k)] # Absent

\* C12: auth() performs a lightweight rejoin with the stored session if and
\* only if all three session parts are present (every get returns a value,
\* which it does only for a part that is in storage), a full join if and only
\* if at least one part is missing, and exactly one of the two per call.
C12_RejoinIffAllPartsPresent ==
    last.op = "auth" =>
        /\ last.mode \in {"ABP", "OTAA"}
        /\ (last.mode = "ABP") <=> AllGetsPresent
        /\ (last.mode = "OTAA") <=> SomeGetAbsent
        /\ last.mode = "ABP" =>
              /\ AllPartsStored
              /\ last.joined = NoSession
              /\ last.puts = 0
              /\ \A k \in Keys : last.gets[k] = storage[KeyTag(k)]

C12_Witness ==
    /\ last.op = "auth"
    /\ last.mode = "ABP"
    /\ AllGetsPresent
    /\ AllPartsStored
    /\ last.res = "Ok"
    /\ state = "Duty"

\* The storage holds the three parts of session k under their own keys.
SessionStored(k) ==
    /\ storage[KeyTag("NewSKey")] = k[1]
    /\ storage[KeyTag("AppSKey")] = k[2]
    /\ storage[KeyTag("DevAddr")] = k[3]

\* C13: whenever Duty is entered after a successful full join, all three
\* parts of the session that join returned are already in storage; no probe
\* or uplink runs between the join's success and the three puts, so in Duty
\* and in Send the storage always holds all three parts.
C13_PersistBeforeDuty ==
    /\ (last.op = "auth" /\ last.mode = "OTAA" /\ last.joined # NoSession
        /\ exec = "running" /\ state = "Duty")
            => (last.puts = 3 /\ SessionStored(last.joined))
    /\ (last.op = "auth" /\ last.mode = "OTAA" /\ last.joined # NoSession
        /\ last.puts < 3)
            => (exec # "running" /\ state = "Auth")
    /\ (exec = "running" /\ state \in {"Duty", "Send"}) => AllPartsStored
    /\ last.op \in {"duty", "send"} => AllPartsStored

C13_Witness ==
    /\ last.op = "auth"
    /\ last.mode = "OTAA"
    /\ last.joined = SessionOf(2)
    /\ last.puts = 3
    /\ state = "Duty"
    /\ SessionStored(SessionOf(2))

\* C14: whenever auth() returns success, by full join or by lightweight
\* rejoin, the join-retry counter auth_attempt is 0 afterwards.
C14_CounterResetOnSuccess ==
    (last.op = "auth" /\ last.res = "Ok") => auth_attempt = 0

\* A failed full join followed by a successful one leaves the counter at 1.
AuthSuccessKeepsCounter ==
    /\ last.op = "auth"
    /\ last.res = "Ok"
    /\ state = "Duty"
    /\ auth_attempt > 0

\* C15: a storage-level fault at Boot is fatal to the current boot: if the
\* reformat attempted after a mount failure or a forced reset itself fails,
\* Boot does not transition to Auth but to Idle.
C15_FormatFailureLeadsToIdle ==
    (last.op = "boot" /\ last.format /\ last.fault)
        => (state = "Idle" /\ idle_secs = BootFailIdleSecs)

\* C16: a verify() failure of any of the three sensors at Boot does not abort
\* boot: every sensor's verify is still run once, in order, and Boot
\* transitions to Auth.
C16_VerifyFailureDoesNotAbortBoot ==
    (last.op = "boot" /\ last.vfailed # {}) =>
        /\ last.verified = <<"system", "soil", "air">>
        /\ last.res = "Ok"
        /\ state = "Auth"
        /\ soil_pwr = "low"

C16_Witness ==
    /\ last.op = "boot"
    /\ last.vfailed = {"system", "soil", "air"}
    /\ last.verified = <<"system", "soil", "air">>
    /\ state = "Auth"

\* The last step ended in Idle for a reason other than the exhausted join
\* retries: a Duty failure, a hard Send error or another Auth failure.
GenericFailureIdle ==
    /\ state = "Idle"
    /\ \/ last.op = "duty"
       \/ last.op = "send"
       \/ (last.op = "auth" /\ last.res # "AuthJoinAttemptsExhausted")

\* C17: the Idle duration entered when the join-retry limit is exceeded is
\* the long backoff (3600 s), and the Idle duration entered after a Duty
\* failure, a hard Send error or another generic Auth failure is a strictly
\* shorter medium backoff.
C17_BackoffDurations ==
    /\ (state = "Idle" /\ last.op = "auth" /\ last.res = "AuthJoinAttemptsExhausted")
          => idle_secs = 3600
    /\ GenericFailureIdle => (idle_secs > 0 /\ idle_secs < 3600)

\* C18: the soil sensor is powered only around its own verify and probe:
\* whenever the orchestrator is in Auth, Send or Idle, and whenever
\* collect_data has returned, with success or with any sensor's probe
\* failure, the soil sensor's power is off.
C18_SoilPoweredOnlyAroundProbe ==
    /\ (exec = "running" /\ state \in {"Auth", "Send", "Idle"}) => soil_pwr = "low"
    /\ (last.op = "duty" /\ last.res \in {"Ok", "Duty"}) => soil_pwr = "low"

\* The soil probe failed and the orchestrator idles with the sensor powered.
SoilLeftPoweredInIdle ==
    /\ last.op = "duty"
    /\ last.res = "Duty"
    /\ state = "Idle"
    /\ soil_pwr = "high"

(***************************************************************************)
(* Claims about the channel-based program, continued.                      *)
(***************************************************************************)
\* C19: in every reachable interleaving of the main loop, the radio task and
\* the sensor tasks, no task holds a sensor guard (the air-sensor or the
\* soil-sensor mutex) at the same time as it holds the radio guard; and no
\* guard has two holders.
C19_NoSensorGuardWithRadioGuard ==
    /\ \A t \in Tasks : ~(held[t] \cap SensorGuards # {} /\ RadioGuard \in held[t])
    /\ \A t \in Tasks, u \in Tasks : t # u => held[t] \cap held[u] = {}

\* Both sensor tasks and the radio task are inside an arm at once, each
\* holding its own guard.
C19_Witness ==
    /\ held["air"] = {"AIR_SENSOR_MUTEX"}
    /\ held["soil"] = {"SOIL_SENSOR_MUTEX"}
    /\ held["radio"] = {RadioGuard}
    /\ task_pc["air"] = "send"
    /\ radio_pc = "send"

(***************************************************************************)
(* Claims about the Device orchestrator: Idle.                             *)
(***************************************************************************)
\* C20: the only successor of Idle(d) is Auth, it is taken only after the
\* sleep of duration d has elapsed, and no boot, probe, join or uplink
\* operation is performed while in Idle: every step taken in Idle either
\* stays in Idle(d) or sleeps d seconds and enters Auth, and none touches the
\* storage, the payload, the radio's sessions, the soil sensor's power or the
\* retry counter.
C20_IdleThenAuth ==
    [][(state = "Idle") =>
          /\ exec = "running" /\ exec' = "running"
          /\ idle_secs > 0
          /\ \/ (state' = "Idle" /\ idle_secs' = idle_secs /\ last'.op = "tick")
             \/ (state' = "Auth" /\ last'.op = "idle" /\ last'.slept = idle_secs)
          /\ UNCHANGED <<storage, data, join_count, soil_pwr, auth_attempt, persisted>>
      ]_vars

C20_Witness ==
    /\ last.op = "idle"
    /\ last.slept = 3600
    /\ state = "Auth"
    /\ pc = "tick"

\* The steps of the run loop that evaluate the state.
EvaluationOps == {"boot", "auth", "duty", "send", "idle"}

\* C21: exactly one ticker wait separates any two consecutive state
\* evaluations, whatever the state and its result: an evaluation follows a
\* ticker wait (or the start of the loop), a ticker wait follows an
\* evaluation, so a failed join, probe or uplink is never attempted again
\* without a ticker wait in between.
C21_OneTickBetweenEvaluations ==
    [][CASE last'.op = "tick" -> (last.op \in EvaluationOps /\ pc = "tick" /\ state' = state)
         [] last'.op = "restart" -> exec # "running"
         [] OTHER -> (last.op \in {"none", "tick", "restart"} /\ pc = "eval"
                      /\ (exec' = "running" => pc' = "tick"))
      ]_vars

\* A full join failed a second time and the loop is at the ticker again.
C21_Witness ==
    /\ last.op = "auth"
    /\ last.res = "AuthFailed"
    /\ auth_attempt = 2
    /\ state = "Auth"
    /\ pc = "tick"

(***************************************************************************)
(* Claims about both orchestrators.                                        *)
(***************************************************************************)
\* The sensors of the records of a payload, in order.
SourcesOf(d) == [i \in 1..Len(d) |-> d[i].sensor]

\* C22: in both orchestrators Send is entered only when all three sensors
\* probed successfully in the Duty just before: the failure of any single
\* sensor aborts the cycle (Idle in the Device, Wait in the Board), and the
\* payload that is transmitted always holds all three records.
C22_SendOnlyAfterFullDuty ==
    /\ last.op = "duty" =>
          /\ (state = "Send") <=> (last.failed = {})
          /\ last.failed # {} => (state = "Idle" /\ last.res = "Duty")
    /\ (exec = "running" /\ state = "Send") =>
          SourcesOf(data) = <<"system", "soil", "air">>
    /\ last.op = "send" => SourcesOf(last.sent) = <<"system", "soil", "air">>
    /\ b_last.op = "duty" =>
          /\ (b_state = "Send") <=> (b_last.failed = {})
          /\ b_last.failed # {} => (b_state = "Wait" /\ b_last.res = "Duty")
    /\ (b_exec = "running" /\ b_state = "Send") =>
          SourcesOf(sensors_data) = <<"board", "air", "soil">>
    /\ b_last.op = "send" => SourcesOf(b_last.sent) = <<"board", "air", "soil">>

\* The Board's soil sensor failed: two records were collected, none is sent.
C22_Witness ==
    /\ b_last.op = "duty"
    /\ b_last.failed = {"soil"}
    /\ SourcesOf(sensors_data) = <<"board", "air">>
    /\ b_state = "Wait"

\* The Device's air sensor failed after the other two records were appended.
DevicePartialPayloadNotSent ==
    /\ last.op = "duty"
    /\ last.failed = {"air"}
    /\ SourcesOf(data) = <<"system", "soil">>
    /\ state = "Idle"

(***************************************************************************)
(* Claims about the measurements and their records.                        *)
(***************************************************************************)
\* The record of 23.4 degrees, 55.2 % and 842 ppm: 01 67 00 EA 01 68 6E 01 65
\* 03 4A.
ExampleRecord == <<1, 103, 0, 234, 1, 104, 110, 1, 101, 3, 74>>

\* The chip's answer nearest to the example: the temperature word 25615 is
\* 23.4004 degrees and the humidity word 36175 is 55.1995 %.
ExampleBuffer == SensorBuffer(842, 25615, 36175)

\* C23: the air record of temperature 23.4, humidity 55.2 % and CO2 842 ppm
\* is channel 1 / type 0x67 with 234 as 16 bits big-endian, channel 1 / type
\* 0x68 with the byte 110, channel 1 / type 0x65 with 842 as 16 bits
\* big-endian; the record is a function of the values alone, and the two
\* encoders give the same bytes for the same values.
C23_AirRecordEncoding ==
    /\ (meas_out.op = "into" /\ meas_in.fn = "into" /\ meas_in.temp10 = 234
            /\ meas_in.hum10 = 552 /\ meas_in.co2 = 842)
          => meas_out.bytes = ExampleRecord
    /\ (meas_out.op \in {"probe", "into"} /\ meas_out.res = "Ok"
            /\ meas_in.buffer = ExampleBuffer)
          => meas_out.bytes = ExampleRecord
    /\ (meas_out.op \in {"probe", "into"} /\ meas_out.res = "Ok")
          => meas_out.bytes = From_Data(meas_out.data)

C23_Witness ==
    /\ meas_out.op = "into"
    /\ meas_in.fn = "into"
    /\ meas_in.temp10 = 234 /\ meas_in.hum10 = 552 /\ meas_in.co2 = 842
    /\ meas_out.bytes[3] = 0 /\ meas_out.bytes[4] = 234 /\ meas_out.bytes[7] = 110

\* The example measured by AirSensor::probe.
ExampleProbed ==
    /\ meas_out.op = "probe" /\ meas_out.res = "Ok"
    /\ meas_in.buffer = ExampleBuffer
    /\ meas_out.bytes = ExampleRecord

\* Whether the integer v is the f32 a in tenths, one tenth being the
\* resolution: |v - 10 * a| < 1.
WithinOneTenth(v, a) ==
    IF a.m = 0 THEN v = 0
    ELSE IF a.e <= -28 THEN v = 0 \/ v = a.sg
    ELSE IF a.e >= 0 THEN FALSE
    ELSE LET s == 2^(-a.e)
             t == 10 * a.m
         IN /\ Abs(v) <= (t \div s) + 1
            /\ Abs(v * s - a.sg * t) < s

\* The temperature records of the air sensor are signed tenths.
AirTemperatureSignedTenths ==
    (meas_out.op \in {"probe", "into"} /\ meas_out.res = "Ok") =>
        /\ meas_out.bytes[2] = 103
        /\ WithinOneTenth(SignedBE(meas_out.bytes[3], meas_out.bytes[4]),
                          meas_out.data.temp)

\* C24: every temperature record (type 0x67) holds the temperature in tenths
\* of a degree as a signed 16-bit big-endian two's-complement value, below
\* zero as well as above: the air sensor's and the system sensor's chip
\* temperature alike.
C24_TemperatureSignedTenths ==
    /\ AirTemperatureSignedTenths
    /\ (meas_out.op = "system" /\ meas_out.res = "Ok") =>
          LET t == get_temperature(meas_in.adc_temp)
              v == SignedBE(meas_out.bytes[3], meas_out.bytes[4])
          IN /\ meas_out.bytes[2] = 103
             /\ v = t.rounded_temp_x10
             /\ WithinOneTenth(v, t.temp)

\* An air temperature below zero is encoded in two's complement.
AirBelowZeroEncoded ==
    /\ meas_out.op = "into" /\ meas_in.fn = "into" /\ meas_in.temp10 = -50
    /\ meas_out.bytes[3] = 255 /\ meas_out.bytes[4] = 206

\* A chip temperature below zero is encoded as zero.
SystemBelowZeroEncodedAsZero ==
    /\ meas_out.op = "system" /\ meas_out.res = "Ok"
    /\ get_temperature(meas_in.adc_temp).rounded_temp_x10 < 0
    /\ meas_out.bytes[3] = 0 /\ meas_out.bytes[4] = 0

\* C29: in both measurement sequences of the air sensor every bus read comes
\* after a timed delay that follows the command write asking for it, the
\* read-measurement command comes after the 5000 ms wait that follows the
\* single-shot command, and no bus operation follows one that failed.
C29_AirSequenceDelays ==
    (meas_out.bus # <<>> /\ meas_in.fn \in {"probe", "collect_data"}) =>
        LET bus == meas_out.bus
        IN \A i \in 1..Len(bus) :
              /\ bus[i].op = "read" =>
                    /\ i > 2
                    /\ bus[i - 1].op = "delay" /\ bus[i - 1].ms > 0
                    /\ bus[i - 2] = BusWrite("READ_MEASUREMENT_COMMAND", TRUE)
              /\ bus[i] = BusWrite("READ_MEASUREMENT_COMMAND", bus[i].ok) =>
                    /\ i > 2
                    /\ bus[i - 1] = Delay(5000)
                    /\ bus[i - 2] = BusWrite("MEASURE_SINGLE_SHOT_COMMAND", TRUE)
              /\ ~bus[i].ok => i = Len(bus)

\* The sequence of AirSensor::probe keeps the delays.
ProbeSequenceDelays == meas_in.fn = "probe" => C29_AirSequenceDelays

\* collect_data has read right after the read-measurement command.
CollectDataReadWithoutDelay ==
    /\ meas_out.op = "collect_data" /\ meas_out.res = "Ok"
    /\ meas_out.bus = <<BusWrite("MEASURE_SINGLE_SHOT_COMMAND", TRUE),
                        Delay(5000),
                        BusWrite("READ_MEASUREMENT_COMMAND", TRUE),
                        BusRead(TRUE)>>

(***************************************************************************)
(* Claims about the Device orchestrator: payload, boot and retry counter.  *)
(***************************************************************************)
\* C25: the payload handed to the radio in Send is the system record (18
\* bytes), the soil record (4 bytes) and the air record (11 bytes), in this
\* order, as the probes of the Duty just before returned them: nothing of an
\* earlier cycle is in it and nothing is cut off.
C25_PayloadIsLastDutyRecords ==
    /\ Evaluating("Send") => data = probed.recs
    /\ last.op = "send" =>
          /\ last.sent = probed.recs
          /\ SourcesOf(last.sent) = ProbeOrder
          /\ DataLen(last.sent) = SystemRecordSize + SoilRecordSize + AirRecordSize
          /\ \A i \in 1..Len(last.sent) : last.sent[i].reading = last.sent[1].reading

\* A Send whose Duty found the records of an earlier cycle, with other
\* readings, in the buffer.
C25_Witness ==
    /\ last.op = "send"
    /\ last.sent = probed.recs
    /\ probed.stale
    /\ Len(last.sent) = 3

\* C26: boot() calls the storage's format exactly when the mount failed or the
\* reset flag is set; with a successful mount and the flag unset boot leaves
\* every stored key and value as it was.
C26_FormatIffMountFailedOrReset ==
    last.op = "boot" =>
        /\ last.format <=> (~last.mounted \/ reset_flag)
        /\ (last.mounted /\ ~reset_flag) => storage = last.flash

\* A boot after a restart that mounted the store and kept the stored session.
C26_Witness ==
    /\ last.op = "boot"
    /\ last.mounted /\ ~reset_flag /\ ~last.format
    /\ storage = last.flash
    /\ \E k \in Keys : storage[KeyTag(k)] # Absent

\* A boot that formatted because the mount failed.
BootFormattedOnMountFailure ==
    /\ last.op = "boot" /\ ~last.mounted /\ ~reset_flag /\ last.format

\* The failure branch of a full join has run.
FullJoinFailed(l) ==
    /\ l.op = "auth" /\ l.mode = "OTAA"
    /\ l.res \in {"AuthFailed", "AuthJoinAttemptsExhausted"}

\* C30: the join-retry counter auth_attempt is always between 0 and 10, far
\* from the end of its 8-bit range, and only the failure branch of a full join
\* changes it (Device::new sets it to 0 when the program starts again).
C30_AuthAttemptRange ==
    [][/\ auth_attempt \in 0..(AuthAttemptLimit + 1)
       /\ auth_attempt' \in 0..(AuthAttemptLimit + 1)
       /\ auth_attempt' # auth_attempt =>
             \/ FullJoinFailed(last')
             \/ last'.op = "restart" /\ auth_attempt' = 0
       /\ FullJoinFailed(last') =>
             auth_attempt' = IF auth_attempt > AuthAttemptLimit THEN 0
                             ELSE auth_attempt + 1
      ]_vars

\* The counter at its largest value.
C30_Witness ==
    /\ auth_attempt = AuthAttemptLimit + 1
    /\ FullJoinFailed(last)

(***************************************************************************)
(* Claims about the persisted namespace.                                   *)
(***************************************************************************)
\* The persisted keys: the session parts of storage/mod.rs and the frame
\* counters of database/mod.rs.
Namespace ==
    {<<"storage", k>> : k \in Keys} \cup {<<"database", k>> : k \in CounterKeys}

TagOf(n) == IF n[1] = "storage" THEN KeyTag(n[2]) ELSE CounterTag(n[2])

\* C27: the one-byte tags of the application session key, the network session
\* key, the device address, the uplink and the downlink frame counter are
\* pairwise distinct, so a put of one key leaves the value of every other key
\* as it was.
C27_TagsPairwiseDistinct ==
    [][/\ \A n1, n2 \in Namespace : n1 # n2 => TagOf(n1) # TagOf(n2)
       /\ (db_last'.op = "put" /\ db_last'.res = "Ok") =>
             \A n \in Namespace :
                n # <<db_last'.store, db_last'.key>> =>
                    storage'[TagOf(n)] = storage[TagOf(n)]
      ]_vars

\* A put of the uplink frame counter has replaced the stored application
\* session key.
CounterPutReplacedSessionKey ==
    /\ db_last.op = "put" /\ db_last.store = "database" /\ db_last.res = "Ok"
    /\ db_last.key = "UPLINK_FRAME_COUNTER"
    /\ storage[KeyTag("AppSKey")] = CounterValue(db_last.value)
    /\ storage[KeyTag("NewSKey")].part = "nwk"

\* C28: in the frame-counter store a get that follows put(key, v) returns v
\* (None when the read of the flash fails, never another value); a put on
\* one counter leaves the value of the other counter as it was; a put stores
\* the two bytes of its value in place of whatever the key held.
C28_CounterRoundTrip ==
    [][/\ (db_last'.op = "put" /\ db_last'.store = "database" /\ db_last'.res = "Ok") =>
             /\ storage'[CounterTag(db_last'.key)].bytes =
                   <<db_last'.value \div 256, db_last'.value % 256>>
             /\ Database_get(storage', db_last'.key, TRUE) = Some(db_last'.value)
             /\ \A k \in CounterKeys \ {db_last'.key} :
                   storage'[CounterTag(k)] = storage[CounterTag(k)]
       /\ (/\ db_last'.op = "get" /\ db_last'.store = "database"
           /\ db_last.op = "put" /\ db_last.store = "database" /\ db_last.res = "Ok"
           /\ db_last'.key = db_last.key) =>
             db_last'.got = IF db_last'.res = "Ok" THEN Some(db_last.value) ELSE None
      ]_vars

\* A get of the uplink counter returned 0xABCD while the downlink counter
\* holds 256: the uplink counter was put twice, first with 1.
C28_Witness ==
    /\ db_last.op = "get" /\ db_last.key = "UPLINK_FRAME_COUNTER"
    /\ db_last.got = Some(43981)
    /\ storage[CounterTag("DOWNLINK_FRAME_COUNTER")] = CounterValue(256)

(***************************************************************************)
(* Claims about the Sensor trait implementations, continued.               *)
(***************************************************************************)
\* Two AirSensor calls in a row, first then second, the first one successful.
AirCalls(first, second) ==
    /\ prev_call.sensor = "AirSensor" /\ prev_call.op = first /\ prev_call.res = "Ok"
    /\ last_call.sensor = "AirSensor" /\ last_call.op = second

\* C31: for AirSensor an on() that follows a successful off() issues the
\* wake-up command before it returns success, an off() that follows a
\* successful on() issues the power-down command, and the powered flag always
\* equals the power state that the last successful on() or off() produced.
C31_AirPoweredFlagTracksChip ==
    /\ (AirCalls("off", "on") /\ last_call.res = "Ok") =>
          last_call.effects = <<"WAKE_UP">>
    /\ AirCalls("on", "off") => last_call.effects = <<"POWER_DOWN">>
    /\ air_powered <=> (air_chip = "idle")

\* on() has returned success after a successful off() without a bus command:
\* the chip is still asleep and the flag still says powered.
AirOnAfterOffSkipsWakeUp ==
    /\ AirCalls("off", "on")
    /\ prev_call.effects = <<"POWER_DOWN">>
    /\ last_call.res = "Ok" /\ last_call.effects = <<>>
    /\ air_chip = "sleep" /\ air_powered

(***************************************************************************)
(* Claims about the system sensor's record, continued.                     *)
(***************************************************************************)
\* C32: the value byte of the battery-capacity record (type 0x68) that
\* SystemSensor::probe builds is between 0 and 200, a capacity of 0 to 100 %
\* in half percents, for every 12-bit reading of the battery channel.
C32_BatteryCapacityByteRange ==
    (meas_out.op = "system" /\ meas_out.res = "Ok") =>
        /\ meas_out.bytes[10] = 104
        /\ meas_out.bytes[11] \in 0..200

\* A battery reading above 4.2 V is encoded as more than 100 %.
BatteryCapacityByteAboveFull ==
    /\ meas_out.op = "system" /\ meas_out.res = "Ok"
    /\ meas_in.adc_btr = 4095
    /\ meas_out.bytes[10] = 104 /\ meas_out.bytes[11] = 255

(***************************************************************************)
(* Claims about the stored session over the life of the orchestrator.      *)
(***************************************************************************)
\* All three session parts are in the store.
AllStored(st) == \A k \in Keys : st[KeyTag(k)] # Absent

\* The session the store holds, in the order get_session_keys returns it.
StoredSession(st) ==
    <<st[KeyTag("NewSKey")], st[KeyTag("AppSKey")], st[KeyTag("DevAddr")]>>

\* C33: session parts are written only by persist_session_keys after a
\* successful full join and removed only by a format at Boot; so an Auth that
\* finds all three parts stored and reads each of them performs no full join,
\* it rejoins with the stored session and leaves the store alone, and this is
\* the Auth that Send's session-expired leads to.
C33_StoredSessionNeverRejoinedInFull ==
    [][/\ storage' # storage =>
             \/ /\ Evaluating("Auth")
                /\ last'.op = "auth" /\ last'.mode = "OTAA"
                /\ last'.joined # NoSession
                /\ \A k \in Keys :
                      storage'[KeyTag(k)] # storage[KeyTag(k)] =>
                          \E i \in 1..3 : /\ PersistOrder[i] = k
                                          /\ storage'[KeyTag(k)] = last'.joined[i]
             \/ /\ Evaluating("Boot")
                /\ last'.op = "boot" /\ last'.format
                /\ storage' = EmptyStorage
       /\ (/\ Evaluating("Auth")
           /\ AllStored(storage)
           /\ \A k \in Keys : last'.gets[k] = storage[KeyTag(k)]) =>
             /\ last'.op = "auth" /\ last'.mode = "ABP"
             /\ last'.keys = StoredSession(storage)
             /\ last'.joined = NoSession /\ last'.puts = 0
             /\ storage' = storage
             /\ join_count' = join_count
       /\ (Evaluating("Send") /\ last'.res = "SessionExpired") =>
             /\ state' = "Auth"
             /\ storage' = storage
      ]_vars

\* An Auth entered from a Send that reported session-expired has rejoined with
\* the session that the one full join stored.
C33_Witness ==
    /\ last.op = "auth" /\ last.expired
    /\ last.mode = "ABP" /\ last.res = "Ok"
    /\ AllStored(storage)
    /\ last.keys = StoredSession(storage)
    /\ last.keys = SessionOf(1)
    /\ join_count = 1

\* C34: a failed lightweight rejoin (the join with the stored session) leaves
\* the join-retry counter and every stored session part unchanged and leads to
\* Idle, never to an Auth retry in place.
C34_FailedRejoinLeadsToIdle ==
    [][(/\ Evaluating("Auth")
        /\ last'.op = "auth" /\ last'.mode = "ABP" /\ last'.res # "Ok") =>
           /\ last'.res = "Auth"
           /\ auth_attempt' = auth_attempt
           /\ storage' = storage
           /\ exec' = "running"
           /\ state' = "Idle" /\ idle_secs' = AuthFailIdleSecs
      ]_vars

\* A rejoin has failed with the retry counter above zero.
C34_Witness ==
    /\ last.op = "auth" /\ last.mode = "ABP" /\ last.res = "Auth"
    /\ state = "Idle" /\ pc = "tick"
    /\ auth_attempt > 0
    /\ AllStored(storage) /\ last.keys = StoredSession(storage)

(***************************************************************************)
(* Claims about when the orchestrator sends.                               *)
(***************************************************************************)
\* C35: the radio uplink is called only in Send; Send is entered only from a
\* successful Duty, and Duty only from a successful Auth or from a Send that
\* returned Ok or NoAck, so that between the last successful Auth and any
\* uplink there is no Boot, no Idle and no failed Auth: no uplink is attempted
\* before the first successful join or after a failed join without a new one.
C35_UplinkOnlyAfterSuccessfulAuth ==
    [][/\ (last'.op = "send" /\ last.op # "send") =>
             /\ Evaluating("Send")
             /\ last.authed
       /\ (state' = "Send" /\ state # "Send") =>
             /\ Evaluating("Duty")
             /\ last'.op = "duty" /\ last'.res = "Ok"
             /\ last.authed
       /\ (state' = "Duty" /\ state # "Duty") =>
             \/ Evaluating("Auth") /\ last'.op = "auth" /\ last'.res = "Ok"
             \/ /\ Evaluating("Send")
                /\ last'.op = "send" /\ last'.res \in {"Ok", "NoAck"}
                /\ last.authed
       /\ (Evaluating("Auth") /\ last'.op = "auth") =>
             (last'.authed <=> last'.res = "Ok")
       /\ (Evaluating("Boot") \/ Evaluating("Idle") \/ last'.op = "restart") =>
             ~last'.authed
      ]_vars

\* An uplink made after a join that succeeded on a retry.
C35_Witness ==
    /\ last.op = "send" /\ last.authed
    /\ last.sent # <<>>
    /\ auth_attempt > 0
    /\ join_count > 0

(***************************************************************************)
(* Claims about the channel-based program (main.rs), continued.            *)
(***************************************************************************)
\* The radio task leaves an uplink arm: radio.send has been called.
RadioSendCalled == radio_pc = "send" /\ radio_pc' = "receive"

\* C36: in main.rs the radio task transmits no uplink unless a join command
\* handled before it has completed successfully.
C36_UplinkOnlyAfterJoinSucceeded ==
    [][RadioSendCalled => joined]_vars

\* The radio task is in an uplink arm, holding the radio, after the join
\* command was handled and failed.
RadioSendsAfterFailedJoin ==
    /\ radio_pc = "send" /\ radio_cmd.cmd # "Join"
    /\ ~joined
    /\ m_pc \notin {"init_air", "init_soil", "send_join"}

\* The sources of the uplink commands that wait in a sequence of commands.
RECURSIVE UplinkSources(_)
UplinkSources(q) ==
    IF q = <<>> THEN <<>>
    ELSE (IF Head(q).cmd \in {"none", "Join"} THEN <<>> ELSE <<Head(q).from>>)
         \o UplinkSources(Tail(q))

\* Every payload on its way to the radio, the oldest first: the command the
\* radio task is handling, the commands in RADIO_CTRL_CHNL, the payload main
\* has built and not yet sent.
InFlight == UplinkSources(<<radio_cmd>> \o radio_ctrl \o <<m_msg>>)

\* C37: in main.rs each sensor task handles its Init command before any
\* Measure command, the radio task handles the Join command before any uplink
\* command, and the uplink payloads are transmitted in the order in which main
\* received their results.
C37_CommandsHandledInOrder ==
    [][/\ \A t \in SensorTasks : hist.first[t] \in {"none", "Init"}
       /\ \A t \in SensorTasks :
             task_pc[t] \in {"measure", "send"} => hist.first[t] = "Init"
       /\ hist.first["radio"] \in {"none", "Join"}
       /\ radio_pc = "send" => hist.first["radio"] = "Join"
       /\ InFlight = hist.unsent
       /\ RadioSendCalled =>
             /\ hist.unsent # <<>>
             /\ radio_cmd.from = Head(hist.unsent)
             /\ hist'.unsent = Tail(hist.unsent)
      ]_vars

\* In the second cycle the results came in the reverse of the order of the
\* Measure commands; the radio task transmits the first of them while the
\* other two wait behind it.
C37_Witness ==
    /\ cycle = 2
    /\ got = <<"Status", "Soil", "Air">>
    /\ hist.unsent = got
    /\ radio_pc = "send" /\ radio_cmd.from = "Status"
    /\ hist.first = [t \in SensorTasks \cup {"radio"} |->
                        IF t = "radio" THEN "Join" ELSE "Init"]

\* C38: in main.rs the shared data channel never holds more than 3 results
\* and a sensor's command channel never more than 2 commands, so no send on
\* these channels finds its channel full, and a sensor task that holds its
\* sensor guard can always take its next step.
C38_ChannelsNeverFull ==
    /\ Len(data_chnl) <= 3
    /\ \A t \in SensorTasks : Len(ctrl[t]) <= 2
    /\ CanSend(data_chnl, DataCapacityChnl)
    /\ \A t \in Producers : CanSend(ctrl[t], CtrlCapacity(t))
    /\ \A t \in SensorTasks :
          (held[t] \cap SensorGuards # {}) =>
              /\ task_pc[t] \in {"init", "measure", "send"}
              /\ held[t] = TaskGuards(t)
              /\ \A u \in Tasks \ {t} : held[u] \cap held[t] = {}

\* In the second cycle the air sensor task holds its guard and is about to
\* send the third result into the data channel, which holds the other two.
C38_Witness ==
    /\ cycle = 2
    /\ Len(data_chnl) = 2
    /\ task_pc["air"] = "send"
    /\ held["air"] = {"AIR_SENSOR_MUTEX"}

\* The fullest the channels get.
ChannelsAtTheirFullest ==
    \/ Len(data_chnl) = 3 /\ cycle = 2
    \/ Len(ctrl["air"]) = 2 /\ Len(ctrl["soil"]) = 2

(***************************************************************************)
(* Claims about progress of the orchestrator.                              *)
(***************************************************************************)
\* The states in the order of a run without failures.
SuccessOrder ==
    {<<"Boot", "Auth">>, <<"Auth", "Duty">>, <<"Duty", "Send">>, <<"Send", "Duty">>}

\* C39: when every storage, sensor and radio operation succeeds and every
\* timer wait elapses, the orchestrator goes Boot, Auth, Duty, Send and then
\* alternates Duty and Send forever: Send is entered infinitely often, Boot is
\* executed once and never again, and Idle is never entered.
C39_SendForeverWhenAllSucceeds ==
    /\ [](last.clean =>
             /\ exec = "running"
             /\ state # "Idle"
             /\ state = "Boot" <=> last.op = "none")
    /\ [][(last'.clean /\ state' # state) => <<state, state'>> \in SuccessOrder]_vars
    /\ ([]last.clean) =>
          /\ []<>(last.op = "send")
          /\ []<>(last.op = "duty")
          /\ <>[](state \in {"Duty", "Send"})

\* The second round of Duty and Send has completed after one boot and one
\* join, nothing having failed.
C39_Witness ==
    /\ last.clean
    /\ last.op = "send" /\ last.res = "Ok"
    /\ state = "Duty"
    /\ probed.stale
    /\ join_count = 1 /\ auth_attempt = 0
    /\ AllStored(storage)

====
